---- MODULE Spec2Model ----
(***************************************************************************)
(* Model of the weather / gas-storage repository: the SQLite observation   *)
(* stores (degree_days/cache.py, eia_gas/cache.py), the cycle clock and    *)
(* the backfill passes (scheduler.py, main.py).                            *)
(*                                                                         *)
(* A table is a bag of rows (SQL rows carry no order; a bag can hold a row *)
(* twice, so key uniqueness is something the model can violate).  A date   *)
(* text 'YYYY-MM-DD' is the tuple <<y, m, d>>: zero-padded ISO text sorts  *)
(* as the tuple sorts.  SQL NULL is <<>> and a value v is <<v>>.           *)
(***************************************************************************)
EXTENDS Integers, Sequences, FiniteSets, Bags, TLC

VARIABLES
    forecasts,              \* table forecasts of degree_days/cache.py
    lastSaved,              \* history: the series of the latest save_run per cycle
    eia_storage,            \* table eia_storage of eia_gas/cache.py
    noaa_cpc_degree_days,   \* table noaa_cpc_degree_days of eia_gas/cache.py
    lastOp,                 \* history: the latest store-changing gas operation
    frame,                  \* the data frame handed to GasFlowRegression
    cpc,                    \* history: the latest fetch_history_range call
    paging,                 \* the state of the fetch_storage call in progress
    ret,                    \* the return value of the latest read operation
    pass,                   \* the state of the backfill pass in progress
    download,               \* the state of the get_full_forecast call in progress
    writers                 \* the save_run transaction of each process

storeVars == <<forecasts, lastSaved>>
gasVars == <<eia_storage, noaa_cpc_degree_days, lastOp, frame, cpc, paging>>
schedVars == <<pass, download, writers>>
vars == <<forecasts, lastSaved, eia_storage, noaa_cpc_degree_days, lastOp, frame, cpc, paging, ret,
          pass, download, writers>>

-----------------------------------------------------------------------------
(* Calendar: datetime / timedelta arithmetic and SQLite date(x, '+1 day'). *)

Years == {2023, 2024}

IsLeap(y) == (y % 4 = 0) /\ ((y % 100 # 0) \/ (y % 400 = 0))

DaysInMonth(y, m) ==
    IF m = 2 THEN (IF IsLeap(y) THEN 29 ELSE 28)
    ELSE IF m \in {4, 6, 9, 11} THEN 30 ELSE 31

RECURSIVE DaysBeforeMonth(_, _)
DaysBeforeMonth(y, m) ==
    IF m = 1 THEN 0 ELSE DaysBeforeMonth(y, m - 1) + DaysInMonth(y, m - 1)

DaysBeforeYear(y) ==
    LET p == y - 1 IN p * 365 + (p \div 4) - (p \div 100) + (p \div 400)

\* date.toordinal(): the proleptic Gregorian day number
ToOrdinal(date) ==
    DaysBeforeYear(date[1]) + DaysBeforeMonth(date[1], date[2]) + date[3]

\* date.fromordinal(): the inverse of ToOrdinal, for the years of the model
FromOrdinal(n) ==
    LET y == CHOOSE yy \in Years \cup {2022, 2025} :
                 DaysBeforeYear(yy) < n /\ n <= DaysBeforeYear(yy + 1)
        r == n - DaysBeforeYear(y)
        m == CHOOSE mm \in 1..12 :
                 DaysBeforeMonth(y, mm) < r
                 /\ r <= DaysBeforeMonth(y, mm) + DaysInMonth(y, mm)
    IN <<y, m, r - DaysBeforeMonth(y, m)>>

\* text order of two 'YYYY-MM-DD' values (SQLite TEXT comparison, Python str <)
DateLess(a, b) ==
    \/ a[1] < b[1]
    \/ a[1] = b[1] /\ a[2] < b[2]
    \/ a[1] = b[1] /\ a[2] = b[2] /\ a[3] < b[3]

\* SQLite date(x, '+1 day')
DatePlusOneDay(date) == FromOrdinal(ToOrdinal(date) + 1)

-----------------------------------------------------------------------------
(* SQL helpers shared by the two caches.                                    *)

NULL == <<>>
Some(v) == <<v>>

\* the rows of a bag, each once
Rows(table) == BagToSet(table)

\* the table restricted to the rows in keep (a WHERE clause)
Where(table, keep) == [r \in Rows(table) \cap keep |-> table[r]]

\* number of rows of the table, with multiplicity
CountRows(table) == BagCardinality(table)

\* the table without the rows in doomed
DeleteRows(table, doomed) == [r \in Rows(table) \ doomed |-> table[r]]

\* append one row
InsertRow(table, row) == table (+) SetToBag({row})

-----------------------------------------------------------------------------
(* degree_days/cache.py: ForecastCache                                      *)

Models == {"gfs", "ecmwf"}
RunDate == <<2024, 1, 4>>
\* the cycle identities (model, run_date, run_hour) the store is exercised with
CycleIds == { <<"gfs", RunDate, 0>>, <<"ecmwf", RunDate, 0>> }

ValidDates == { <<2024, 1, 4>>, <<2024, 1, 5>> }
\* (HDD, CDD) of one forecast day
DayValues == { <<30, 0>>, <<0, 8>> }

\* one row of daily_df
DailyRows == { [valid_date |-> d, HDD |-> v[1], CDD |-> v[2]] :
                   d \in ValidDates, v \in DayValues }

\* daily_df as get_full_forecast builds it (groupby valid_date): one row per
\* valid date, valid dates strictly ascending; the empty frame included
DailyFrames ==
    { s \in UNION { [1..n -> DailyRows] : n \in 0..Cardinality(ValidDates) } :
        \A i \in 1..Len(s) - 1 : DateLess(s[i].valid_date, s[i + 1].valid_date) }

ForecastRow(model, run_date, run_hour, row) ==
    [model |-> model, run_date |-> run_date, run_hour |-> run_hour,
     valid_date |-> row.valid_date, hdd |-> row.HDD, cdd |-> row.CDD]

\* UNIQUE(model, run_date, run_hour, valid_date)
ForecastKey(r) == <<r.model, r.run_date, r.run_hour, r.valid_date>>

\* a plain INSERT on a table without the UNIQUE constraint
InsertForecastKeepingOld(table, row) == InsertRow(table, row)

\* INSERT OR IGNORE: the stored row wins over the new one
InsertOrIgnoreForecast(table, row) ==
    LET conflicts == { q \in Rows(table) : ForecastKey(q) = ForecastKey(row) }
    IN IF conflicts # {} THEN table ELSE InsertRow(table, row)

\* DELETE of the cycle's rows before the INSERT: the run replaced as a whole
ReplaceRun(table, row) ==
    LET conflicts == { q \in Rows(table) :
                           /\ q.model = row.model /\ q.run_date = row.run_date
                           /\ q.run_hour = row.run_hour }
    IN InsertRow(DeleteRows(table, conflicts), row)

\* INSERT OR REPLACE INTO forecasts: the conflicting rows go, the new row is added
InsertOrReplaceForecast(table, row) ==
    LET conflicts == { q \in Rows(table) : ForecastKey(q) = ForecastKey(row) }
    IN InsertRow(DeleteRows(table, conflicts), row)

\* the loop of save_run over daily_df.iterrows(), from row i on
RECURSIVE SaveRows(_, _, _, _, _, _)
SaveRows(table, model, run_date, run_hour, daily_df, i) ==
    IF i > Len(daily_df) THEN table
    ELSE SaveRows(
             InsertOrReplaceForecast(
                 table, ForecastRow(model, run_date, run_hour, daily_df[i])),
             model, run_date, run_hour, daily_df, i + 1)

\* rows of a bag as a sequence ordered by valid_date (ORDER BY valid_date)
RECURSIVE OrderByValidDate(_)
OrderByValidDate(table) ==
    IF Rows(table) = {} THEN <<>>
    ELSE LET first == CHOOSE r \in Rows(table) :
                          \A q \in Rows(table) : ~DateLess(q.valid_date, r.valid_date)
         IN <<first>> \o OrderByValidDate(table (-) SetToBag({first}))

NoneValue == [kind |-> "None"]
\* ret after an operation that returns nothing
NoReturn == [op |-> "none"]
DataFrame(rows) == [kind |-> "df", rows |-> rows]

\* SELECT valid_date, hdd AS HDD, cdd AS CDD ... WHERE model=? AND run_date=? AND run_hour=?
SelectRun(table, model, run_date, run_hour) ==
    LET matching == { q \in Rows(table) :
                          q.model = model /\ q.run_date = run_date /\ q.run_hour = run_hour }
        sorted == OrderByValidDate(Where(table, matching))
    IN [i \in 1..Len(sorted) |->
           [valid_date |-> sorted[i].valid_date,
            HDD |-> sorted[i].hdd, CDD |-> sorted[i].cdd]]

\* the frame returned even when it is empty
AlwaysFrame(table, model, run_date, run_hour) ==
    DataFrame(SelectRun(table, model, run_date, run_hour))

\* ForecastCache.get_run: the frame, or None when no row matches
get_run_value(table, model, run_date, run_hour) ==
    LET df == SelectRun(table, model, run_date, run_hour)
    IN IF Len(df) > 0 THEN DataFrame(df) ELSE NoneValue

NoSeries == [kind |-> "never saved"]

\* the valid dates the table holds for a cycle
StoredDates(table, id) ==
    { r.valid_date : r \in { q \in Rows(table) :
                                 <<q.model, q.run_date, q.run_hour>> = id } }

FrameDates(rows) == { rows[i].valid_date : i \in 1..Len(rows) }

\* history of a save_run call: the series given, and the valid dates the cycle
\* held when the call started
SaveRecord(table, id, daily_df) ==
    [kind |-> "df", rows |-> daily_df, before |-> StoredDates(table, id)]

save_run(model, run_date, run_hour, daily_df) ==
    /\ forecasts' = SaveRows(forecasts, model, run_date, run_hour, daily_df, 1)
    /\ lastSaved' = (<<model, run_date, run_hour>> :>
                          SaveRecord(forecasts, <<model, run_date, run_hour>>, daily_df))
                     @@ lastSaved
    /\ ret' = NoReturn

get_run(model, run_date, run_hour) ==
    /\ ret' = [op |-> "get_run", id |-> <<model, run_date, run_hour>>,
               value |-> get_run_value(forecasts, model, run_date, run_hour)]
    /\ UNCHANGED storeVars

SaveRun ==
    /\ \E id \in CycleIds, daily_df \in DailyFrames :
           save_run(id[1], id[2], id[3], daily_df)
    /\ UNCHANGED <<gasVars, schedVars>>

GetRun ==
    /\ \E id \in CycleIds : get_run(id[1], id[2], id[3])
    /\ UNCHANGED <<gasVars, schedVars>>

-----------------------------------------------------------------------------
(* eia_gas/cache.py: GasDataCache                                           *)

\* EIA report periods (Fridays; 2024-03-01 follows the leap day)
StoragePeriods == { <<2024, 2, 23>>, <<2024, 3, 1>>, <<2024, 3, 8>> }
StorageLevels == { 100, 95 }
\* the CPC weekly totals (weeks end on Thursdays; 2024-02-29 is the leap day):
\* one per week, and a revised total for the first week
DegreeDayRows ==
    { [week_end_date |-> <<2024, 2, 22>>, HDD |-> 200, CDD |-> 0],
      [week_end_date |-> <<2024, 2, 22>>, HDD |-> 210, CDD |-> 0],
      [week_end_date |-> <<2024, 2, 29>>, HDD |-> 150, CDD |-> 5],
      [week_end_date |-> <<2024, 3, 7>>, HDD |-> 120, CDD |-> 9] }

MaxBatch == 2
MaxLookback == 2

\* df of save_storage: columns period, storage_bcf; at most MaxBatch rows in
\* any order, no period twice
StorageFrames ==
    { b \in UNION { [1..n -> { [period |-> p, storage_bcf |-> v] :
                                   p \in StoragePeriods, v \in StorageLevels }] :
                        n \in 0..MaxBatch } :
        \A i, j \in 1..Len(b) : i # j => b[i].period # b[j].period }

\* df of save_degree_days: columns week_end_date, HDD, CDD; the callers pass
\* the one row they fetched (gas_main.py, noaa_cpc.py); the empty frame included
DegreeDayFrames == { <<>> } \cup { <<r>> : r \in DegreeDayRows }

\* a frame with the row at position i removed
RemoveAt(df, i) == SubSeq(df, 1, i - 1) \o SubSeq(df, i + 1, Len(df))

\* a frame taken in the order given
KeepOrder(df) == df

\* df.sort_values('period'): ascending by period
RECURSIVE SortByPeriod(_)
SortByPeriod(df) ==
    IF df = <<>> THEN <<>>
    ELSE LET i == CHOOSE k \in 1..Len(df) :
                      \A j \in 1..Len(df) : ~DateLess(df[j].period, df[k].period)
         IN <<df[i]>> \o SortByPeriod(RemoveAt(df, i))

\* the rows with a period before the given one
EarlierRows(table, period) == { q \in Rows(table) : DateLess(q.period, period) }

\* the stored row itself counted as its own prior (period <= ?)
PriorOrSame(table, period) ==
    LET earlier == { q \in Rows(table) : ~DateLess(period, q.period) }
    IN IF earlier = {} THEN NULL
       ELSE Some((CHOOSE r \in earlier :
                      \A q \in earlier : ~DateLess(r.period, q.period)).storage_bcf)

\* SELECT storage_bcf FROM eia_storage WHERE period < ? ORDER BY period DESC LIMIT 1
PriorStorage(table, period) ==
    LET earlier == EarlierRows(table, period)
    IN IF earlier = {} THEN NULL
       ELSE Some((CHOOSE r \in earlier :
                      \A q \in earlier : ~DateLess(r.period, q.period)).storage_bcf)

\* INSERT OR REPLACE INTO eia_storage (period is the PRIMARY KEY)
InsertOrReplaceStorage(table, row) ==
    LET conflicts == { q \in Rows(table) : q.period = row.period }
    IN InsertRow(DeleteRows(table, conflicts), row)

\* implied = row['storage_bcf'] - prior[0] if prior else None
ImpliedFlow(storage_bcf, prior) ==
    IF prior # NULL THEN Some(storage_bcf - prior[1]) ELSE NULL

\* the loop of save_storage over the sorted frame, from row i on
RECURSIVE SaveStorageRows(_, _, _)
SaveStorageRows(table, df, i) ==
    IF i > Len(df) THEN table
    ELSE LET row == df[i]
             implied == ImpliedFlow(row.storage_bcf, PriorStorage(table, row.period))
         IN SaveStorageRows(
                InsertOrReplaceStorage(
                    table, [period |-> row.period, storage_bcf |-> row.storage_bcf,
                            implied_flow |-> implied]),
                df, i + 1)

\* SELECT period, storage_bcf FROM eia_storage ORDER BY period
RECURSIVE OrderByPeriod(_)
OrderByPeriod(table) ==
    IF Rows(table) = {} THEN <<>>
    ELSE LET first == CHOOSE r \in Rows(table) :
                          \A q \in Rows(table) : ~DateLess(q.period, r.period)
         IN <<first>> \o OrderByPeriod(table (-) SetToBag({first}))

\* the flow added to the one stored (SET implied_flow = implied_flow + ?)
AddToFlow(table, period, flow) ==
    LET hit == { q \in Rows(table) : q.period = period }
        Added(q) == [q EXCEPT !.implied_flow =
                         IF q.implied_flow # NULL /\ flow # NULL
                         THEN Some(q.implied_flow[1] + flow[1]) ELSE flow]
    IN DeleteRows(table, hit)
           (+) [u \in { Added(q) : q \in hit } |->
                    CountRows(Where(table, { q \in hit : Added(q) = u }))]

\* UPDATE ... WHERE period = ? that removes the row it has no flow for
DropFlowless(table, period, flow) ==
    LET hit == { q \in Rows(table) : q.period = period }
    IN IF flow = NULL THEN DeleteRows(table, hit) ELSE table

\* UPDATE eia_storage SET implied_flow = ? WHERE period = ?
UpdateFlow(table, period, flow) ==
    LET hit == { q \in Rows(table) : q.period = period }
        Updated(q) == [q EXCEPT !.implied_flow = flow]
    IN DeleteRows(table, hit)
           (+) [u \in { Updated(q) : q \in hit } |->
                    CountRows(Where(table, { q \in hit : Updated(q) = u }))]

\* prev left at the first row's level
StuckPrev(prev, storage) == IF prev = NULL THEN Some(storage) ELSE prev

\* prev = storage
NextPrev(prev, storage) == Some(storage)

\* the loop of recompute_implied_flows over the rows read, from row i on
RECURSIVE RecomputeRows(_, _, _, _)
RecomputeRows(table, rows, i, prev) ==
    IF i > Len(rows) THEN table
    ELSE RecomputeRows(
             UpdateFlow(table, rows[i].period, ImpliedFlow(rows[i].storage_bcf, prev)),
             rows, i + 1, NextPrev(prev, rows[i].storage_bcf))

\* INSERT OR REPLACE INTO noaa_cpc_degree_days (week_end_date is the PRIMARY KEY)
InsertOrReplaceDegreeDays(table, row) ==
    LET conflicts == { q \in Rows(table) : q.week_end_date = row.week_end_date }
    IN InsertRow(DeleteRows(table, conflicts), row)

RECURSIVE SaveDegreeDayRows(_, _, _)
SaveDegreeDayRows(table, df, i) ==
    IF i > Len(df) THEN table
    ELSE SaveDegreeDayRows(
             InsertOrReplaceDegreeDays(
                 table, [week_end_date |-> df[i].week_end_date,
                         hdd |-> df[i].HDD, cdd |-> df[i].CDD]),
             df, i + 1)

\* history of the latest operation that wrote eia_storage
SaveStorageRecord(df) ==
    [op |-> "save_storage", periods |-> { df[i].period : i \in 1..Len(df) }]

\* history of a recompute: the rows it changed, and whether the operation
\* before it was a recompute as well
RecomputeRecord(before, after) ==
    [op |-> "recompute_implied_flows",
     changed |-> Cardinality(Rows(after) \ Rows(before)),
     repeated |-> lastOp.op = "recompute_implied_flows"]

save_storage(df) ==
    /\ eia_storage' = SaveStorageRows(eia_storage, SortByPeriod(df), 1)
    /\ lastOp' = SaveStorageRecord(df)
    /\ ret' = NoReturn
    /\ UNCHANGED <<noaa_cpc_degree_days, frame, cpc, paging>>

recompute_implied_flows ==
    /\ eia_storage' = RecomputeRows(eia_storage, OrderByPeriod(eia_storage), 1, NULL)
    /\ lastOp' = RecomputeRecord(eia_storage, eia_storage')
    /\ ret' = NoReturn
    /\ UNCHANGED <<noaa_cpc_degree_days, frame, cpc, paging>>

save_degree_days(df) ==
    /\ noaa_cpc_degree_days' = SaveDegreeDayRows(noaa_cpc_degree_days, df, 1)
    /\ ret' = NoReturn
    /\ UNCHANGED <<eia_storage, lastOp, frame, cpc, paging>>

\* the join with its ON clause left out: every pair
JoinedCross(storage, degree_days) ==
    { [week_end_date |-> pr[1].period, storage_bcf |-> pr[1].storage_bcf,
       implied_flow |-> pr[1].implied_flow, HDD |-> pr[2].hdd, CDD |-> pr[2].cdd] :
          pr \in Rows(storage) \X Rows(degree_days) }

\* s JOIN d ON s.period = date(d.week_end_date, '+1 day'), each pair as the
\* selected row: s.period AS week_end_date, storage_bcf, implied_flow, HDD, CDD
JoinedRows(storage, degree_days) ==
    { [week_end_date |-> pr[1].period, storage_bcf |-> pr[1].storage_bcf,
       implied_flow |-> pr[1].implied_flow, HDD |-> pr[2].hdd, CDD |-> pr[2].cdd] :
          pr \in { pq \in Rows(storage) \X Rows(degree_days) :
                      pq[1].period = DatePlusOneDay(pq[2].week_end_date) } }

\* the oldest rows kept instead of the most recent (ORDER BY s.period ASC)
RECURSIVE OrderByPeriodAsc(_)
OrderByPeriodAsc(rows) ==
    IF rows = {} THEN <<>>
    ELSE LET first == CHOOSE r \in rows :
                          \A q \in rows : ~DateLess(q.week_end_date, r.week_end_date)
         IN <<first>> \o OrderByPeriodAsc(rows \ {first})

\* rows of a set as a sequence, latest week_end_date first (ORDER BY s.period DESC)
RECURSIVE OrderByPeriodDesc(_)
OrderByPeriodDesc(rows) ==
    IF rows = {} THEN <<>>
    ELSE LET first == CHOOSE r \in rows :
                          \A q \in rows : ~DateLess(r.week_end_date, q.week_end_date)
         IN <<first>> \o OrderByPeriodDesc(rows \ {first})

\* LIMIT ?: the first n rows (a negative LIMIT is no limit in SQLite)
Limit(rows, n) ==
    IF n < 0 \/ n >= Len(rows) THEN rows ELSE SubSeq(rows, 1, n)

\* df.sort_values('week_end_date').reset_index(drop=True)
RECURSIVE SortByWeekEnd(_)
SortByWeekEnd(df) ==
    IF df = <<>> THEN <<>>
    ELSE LET i == CHOOSE k \in 1..Len(df) :
                      \A j \in 1..Len(df) :
                          ~DateLess(df[j].week_end_date, df[k].week_end_date)
         IN <<df[i]>> \o SortByWeekEnd(RemoveAt(df, i))

\* the WHERE clause left out
AnyFlow(rows) == rows

\* WHERE s.implied_flow IS NOT NULL
FlowNotNull(rows) == { r \in rows : r.implied_flow # NULL }

\* GasDataCache.get_regression_dataset
regression_dataset(storage, degree_days, lookback_weeks) ==
    SortByWeekEnd(
        Limit(OrderByPeriodDesc(FlowNotNull(JoinedRows(storage, degree_days))),
              lookback_weeks))

get_regression_dataset(lookback_weeks) ==
    /\ ret' = [op |-> "get_regression_dataset", lookback_weeks |-> lookback_weeks,
               value |-> DataFrame(regression_dataset(
                             eia_storage, noaa_cpc_degree_days, lookback_weeks))]
    /\ UNCHANGED gasVars

GetRegressionDataset ==
    /\ \E n \in 0..MaxLookback : get_regression_dataset(n)
    /\ UNCHANGED <<storeVars, schedVars>>

SaveStorage ==
    /\ \E df \in StorageFrames : save_storage(df)
    /\ UNCHANGED <<storeVars, schedVars>>

\* save_storage with the one new report of a weekly update
SaveStorageRow ==
    /\ \E df \in { f \in StorageFrames : Len(f) = 1 } : save_storage(df)
    /\ UNCHANGED <<storeVars, schedVars>>

RecomputeImpliedFlows ==
    /\ recompute_implied_flows
    /\ UNCHANGED <<storeVars, schedVars>>

SaveDegreeDays ==
    /\ \E df \in DegreeDayFrames : save_degree_days(df)
    /\ UNCHANGED <<storeVars, schedVars>>

-----------------------------------------------------------------------------
(* degree_days/cache.py: get_recent_runs.                                   *)

\* order of two (run_date, run_hour): run_date as text, then run_hour
CycleLess(a, b) == DateLess(a[1], b[1]) \/ (a[1] = b[1] /\ a[2] < b[2])

\* ORDER BY run_date ASC, run_hour ASC
RECURSIVE OrderCyclesAsc(_)
OrderCyclesAsc(cycles) ==
    IF cycles = {} THEN <<>>
    ELSE LET first == CHOOSE c \in cycles : \A d \in cycles : ~CycleLess(d, c)
         IN <<first>> \o OrderCyclesAsc(cycles \ {first})

\* ORDER BY run_date DESC, run_hour DESC
RECURSIVE OrderCyclesDesc(_)
OrderCyclesDesc(cycles) ==
    IF cycles = {} THEN <<>>
    ELSE LET first == CHOOSE c \in cycles : \A d \in cycles : ~CycleLess(c, d)
         IN <<first>> \o OrderCyclesDesc(cycles \ {first})

\* SELECT DISTINCT run_date, run_hour FROM forecasts WHERE model=?
SelectDistinctRuns(table, model) ==
    { <<r.run_date, r.run_hour>> : r \in { q \in Rows(table) : q.model = model } }

\* ForecastCache.get_recent_runs: (run_date, run_hour, DataFrame) of the last n runs
get_recent_runs_value(table, model, n) ==
    LET runs == Limit(OrderCyclesDesc(SelectDistinctRuns(table, model)), n)
        fetched == [i \in 1..Len(runs) |->
                       [run_date |-> runs[i][1], run_hour |-> runs[i][2],
                        df |-> get_run_value(table, model, runs[i][1], runs[i][2])]]
    IN SelectSeq(fetched, LAMBDA e : e.df # NoneValue)

\* the runs stored and listed in the runs of get_recent_runs
RecentIds ==
    { <<"gfs", <<2024, 1, 4>>, 12>>, <<"gfs", <<2024, 1, 4>>, 18>>,
      <<"gfs", <<2024, 1, 5>>, 0>>, <<"ecmwf", <<2024, 1, 5>>, 0>> }

\* the series saved in the runs of get_recent_runs
RecentFrames ==
    { <<[valid_date |-> <<2024, 1, 5>>, HDD |-> 30, CDD |-> 0]>>,
      <<[valid_date |-> <<2024, 1, 5>>, HDD |-> 28, CDD |-> 0],
        [valid_date |-> <<2024, 1, 6>>, HDD |-> 0, CDD |-> 8]>> }

MaxRuns == 2

SaveRecentRun ==
    /\ \E id \in RecentIds, daily_df \in RecentFrames :
           save_run(id[1], id[2], id[3], daily_df)
    /\ UNCHANGED <<gasVars, schedVars>>

GetRecentRuns ==
    /\ \E model \in Models, n \in 0..MaxRuns :
           ret' = [op |-> "get_recent_runs", model |-> model, n |-> n,
                   value |-> get_recent_runs_value(forecasts, model, n)]
    /\ UNCHANGED <<storeVars, gasVars, schedVars>>

EmptyTable == EmptyBag

\* a process with nothing in progress
Idle == [pc |-> "idle"]

-----------------------------------------------------------------------------
(* scheduler.py and main.py: the cycle clock and the backfill passes.       *)
(* An instant is [date, hour, minute]; a cycle is <<date, hour>>.           *)

\* MODEL_CONFIG: cycle_hours and delay_hours of each model
MODEL_CONFIG ==
    [m \in {"gfs", "gefs", "ecmwf", "ecmwf-ens", "aifs", "ifs"} |->
        CASE m = "gfs" -> [cycle_hours |-> 6, delay_hours |-> 4]
          [] m = "gefs" -> [cycle_hours |-> 6, delay_hours |-> 5]
          [] m = "ecmwf" -> [cycle_hours |-> 12, delay_hours |-> 6]
          [] m = "ecmwf-ens" -> [cycle_hours |-> 12, delay_hours |-> 7]
          [] m = "aifs" -> [cycle_hours |-> 12, delay_hours |-> 5]
          [] m = "ifs" -> [cycle_hours |-> 12, delay_hours |-> 6]]

\* MODEL_CONFIG.get(model, MODEL_CONFIG['gfs'])
ConfigOrGfs(model) ==
    IF model \in DOMAIN MODEL_CONFIG THEN MODEL_CONFIG[model] ELSE MODEL_CONFIG["gfs"]

\* a lookback of one ecmwf interval only
ShortLookback == 6 + 6

LookbackHours == 48

\* hours since the start of the calendar
HoursOf(dt) == ToOrdinal(dt.date) * 24 + dt.hour

\* the delay not taken off
SameInstant(dt, h) == dt

\* dt - timedelta(hours=h)
MinusHours(dt, h) ==
    LET n == HoursOf(dt) - h
    IN [date |-> FromOrdinal(n \div 24), hour |-> n % 24, minute |-> dt.minute]

\* t > cutoff
StrictlyAfter(t, cutoff) ==
    HoursOf(t) * 60 + t.minute > HoursOf(cutoff) * 60 + cutoff.minute

\* t >= cutoff
AtLeast(t, cutoff) ==
    HoursOf(t) * 60 + t.minute >= HoursOf(cutoff) * 60 + cutoff.minute

\* dt.strftime('%Y-%m-%d'), dt.hour
CycleOf(dt) == <<dt.date, dt.hour>>

\* the hour left at midnight (no .replace(hour=...))
MidnightOf(date, hour) == [date |-> date, hour |-> 0, minute |-> 0]

\* datetime.strptime(date, '%Y-%m-%d').replace(hour=hour)
InstantOf(date, hour) == [date |-> date, hour |-> hour, minute |-> 0]

\* scheduler._latest_cycle
_latest_cycle(model, now_utc) ==
    LET cfg == ConfigOrGfs(model)
        available_time == MinusHours(now_utc, cfg.delay_hours)
        cycle_hour == (available_time.hour \div cfg.cycle_hours) * cfg.cycle_hours
        cycle_dt == [available_time EXCEPT !.hour = cycle_hour, !.minute = 0]
    IN CycleOf(cycle_dt)

\* the while loop shared by _recent_cycles and _backfill: the cycles from t
\* back to the cutoff, most recent first
RECURSIVE CyclesBack(_, _, _)
CyclesBack(t, cutoff, cycle_h) ==
    IF AtLeast(t, cutoff)
    THEN <<CycleOf(t)>> \o CyclesBack(MinusHours(t, cycle_h), cutoff, cycle_h)
    ELSE <<>>

\* scheduler._recent_cycles
_recent_cycles(model, now_utc, lookback_hours) ==
    LET cfg == ConfigOrGfs(model)
        latest == _latest_cycle(model, now_utc)
        latest_dt == InstantOf(latest[1], latest[2])
        cutoff == MinusHours(now_utc, lookback_hours)
    IN CyclesBack(latest_dt, cutoff, cfg.cycle_hours)

\* the cycles _backfill looks at: from one interval before the current run
\* back to the lookback
BackfillCycles(model, current_run_date, current_run_hour, lookback_hours) ==
    LET dt == InstantOf(current_run_date, current_run_hour)
        cycle_hours == ConfigOrGfs(model).cycle_hours
    IN CyclesBack(MinusHours(dt, cycle_hours), MinusHours(dt, lookback_hours),
                  cycle_hours)

\* cache.get_all_runs(model): the distinct (run_date, run_hour) stored for a model
get_all_runs(table, model) ==
    { <<r.run_date, r.run_hour>> : r \in { q \in Rows(table) : q.model = model } }

\* the instants a scheduler pass starts at: around the new year and after the
\* leap day, on and off the hour
PassInstants ==
    { [date |-> <<2024, 1, 1>>, hour |-> 4, minute |-> 0],
      [date |-> <<2024, 1, 1>>, hour |-> 6, minute |-> 0],
      [date |-> <<2024, 1, 1>>, hour |-> 6, minute |-> 30],
      [date |-> <<2024, 3, 1>>, hour |-> 3, minute |-> 30] }

\* the model lists of a scheduler pass
ModelLists == { <<"ecmwf", "gfs">>, <<"icon", "gfs">>, <<"ecmwf", "ecmwf">> }

\* the (model, run date, run hour) main.py backfills from; --date may name any hour
BackfillAnchors ==
    { <<"gfs", <<2024, 1, 1>>, 0>>, <<"gfs", <<2024, 3, 1>>, 3>>,
      <<"ecmwf", <<2024, 1, 1>>, 12>>, <<"icon", <<2024, 1, 1>>, 6>> }

\* what the provider returns for a fetched cycle
ProviderFrame == <<[valid_date |-> <<2024, 1, 4>>, HDD |-> 30, CDD |-> 0]>>

MaxFaults == 2

\* the provider's answers to one get_full_forecast call; at most MaxFaults
\* calls of a run fail or come back empty
FetchOutcomes(faults) ==
    IF faults < MaxFaults THEN {"data", "empty", "raise"} ELSE {"data"}

\* the loop left at the first failure (no try/except around the fetch)
BreakAfterFailure(rest) == <<>>

\* except Exception as e: print(...): the loop goes on with the next cycle
ContinueAfterFailure(rest) == rest

\* the test skipped altogether
NeverStored(cycle, existing) == FALSE

\* if (run_date, run_hour) in existing
AlreadyStored(cycle, existing) == cycle \in existing

\* the pass record at the start of a pass
NewPass(kind, now, models) ==
    [pc |-> "models", kind |-> kind, now |-> now, models |-> models, mi |-> 0,
     model |-> "", existing |-> {}, todo |-> <<>>,
     expected |-> {}, missing |-> {}, log |-> <<>>, printed |-> {},
     fetched |-> 0, faults |-> 0, emptyStart |-> (forecasts = EmptyTable),
     history |-> <<>>]

\* a cycle that came back empty tried again at once
RetryEmpty(todo, outcome) == IF outcome = "empty" THEN todo ELSE Tail(todo)

\* the for loop moves to the next cycle after a fetch that did not raise
NextCycle(todo, outcome) == Tail(todo)

\* print(f"  Failed: {e}") and print(f"  Backfill failed for {date_str}: {e}")
FailureLine(kind) == IF kind = "backfill" THEN "Backfill failed" ELSE "Failed"

\* one fetch of run_once or _backfill recorded in the pass: the history of the
\* attempt, the line printed on failure, and the rest of the loop
AfterFetch(p, cycle, outcome) ==
    [p EXCEPT
        !.todo = IF outcome = "raise" THEN ContinueAfterFailure(Tail(p.todo))
                 ELSE NextCycle(p.todo, outcome),
        !.log = Append(p.log, [model |-> p.model, cycle |-> cycle,
                               outcome |-> outcome]),
        !.printed = IF outcome = "raise"
                    THEN p.printed \cup {<<FailureLine(p.kind), p.model, cycle>>}
                    ELSE p.printed,
        !.fetched = IF outcome = "data" /\ p.kind = "run_once"
                    THEN p.fetched + 1 ELSE p.fetched,
        !.faults = IF outcome = "data" THEN p.faults ELSE p.faults + 1]

\* run_once: now_utc = datetime.now(timezone.utc); fetched = 0
StartRunOnce ==
    /\ pass.pc = "idle"
    /\ \E models \in ModelLists, now_utc \in PassInstants :
           pass' = NewPass("run_once", now_utc, models)
    /\ UNCHANGED <<storeVars, gasVars, ret, download, writers>>

\* run_once: for model in models, up to the cycle loop; return after the last
RunOnceNextModel ==
    /\ pass.pc = "models" /\ pass.kind = "run_once" /\ pass.todo = <<>>
    /\ IF pass.mi = Len(pass.models)
       THEN pass' = [pass EXCEPT !.pc = "done"]
       ELSE LET model == pass.models[pass.mi + 1]
                existing == get_all_runs(forecasts, model)
                cycles == _recent_cycles(model, pass.now, LookbackHours)
            IN IF model \notin DOMAIN MODEL_CONFIG
               THEN pass' = [pass EXCEPT
                                !.mi = pass.mi + 1,
                                !.printed = pass.printed \cup {<<"Unknown model", model>>}]
               ELSE pass' = [pass EXCEPT
                                !.mi = pass.mi + 1, !.model = model,
                                !.existing = existing, !.todo = cycles,
                                !.expected = pass.expected \cup
                                    { <<model, cycles[i]>> : i \in 1..Len(cycles) },
                                !.missing = pass.missing \cup
                                    { <<model, c>> : c \in
                                        { cycles[i] : i \in 1..Len(cycles) } \ existing }]
    /\ UNCHANGED <<storeVars, gasVars, ret, download, writers>>

\* run_once: one turn of for run_date, run_hour in cycles
RunOnceCycle ==
    /\ pass.pc = "models" /\ pass.kind = "run_once" /\ pass.todo # <<>>
    /\ LET cycle == Head(pass.todo)
       IN IF AlreadyStored(cycle, pass.existing)
          THEN /\ pass' = [pass EXCEPT !.todo = Tail(pass.todo)]
               /\ UNCHANGED <<storeVars, ret>>
          ELSE \E outcome \in FetchOutcomes(pass.faults) :
                   /\ pass' = AfterFetch(pass, cycle, outcome)
                   /\ IF outcome = "data"
                      THEN save_run(pass.model, cycle[1], cycle[2], ProviderFrame)
                      ELSE UNCHANGED <<storeVars, ret>>
    /\ UNCHANGED <<gasVars, download, writers>>

\* _backfill up to the fetch loop: the runs to check, or return when none
StartBackfill ==
    /\ pass.pc = "idle"
    /\ \E anchor \in BackfillAnchors :
           LET model == anchor[1]
               existing == get_all_runs(forecasts, model)
               cycles == BackfillCycles(model, anchor[2], anchor[3], LookbackHours)
               runs_to_check ==
                   SelectSeq(cycles, LAMBDA c : ~AlreadyStored(c, existing))
               p == NewPass("backfill", InstantOf(anchor[2], anchor[3]), <<model>>)
           IN pass' = [p EXCEPT
                          !.pc = IF runs_to_check = <<>> THEN "done" ELSE "models",
                          !.mi = 1, !.model = model, !.existing = existing,
                          !.todo = runs_to_check,
                          !.expected = { <<model, cycles[i]>> : i \in 1..Len(cycles) },
                          !.missing = { <<model, runs_to_check[i]>> :
                                            i \in 1..Len(runs_to_check) }]
    /\ UNCHANGED <<storeVars, gasVars, ret, download, writers>>

\* _backfill: one turn of for rd, rh, date_str in runs_to_check; return after the last
BackfillCycle ==
    /\ pass.pc = "models" /\ pass.kind = "backfill"
    /\ IF pass.todo = <<>>
       THEN /\ pass' = [pass EXCEPT !.pc = "done"]
            /\ UNCHANGED <<storeVars, ret>>
       ELSE \E outcome \in FetchOutcomes(pass.faults) :
                /\ pass' = AfterFetch(pass, Head(pass.todo), outcome)
                /\ IF outcome = "data"
                   THEN save_run(pass.model, Head(pass.todo)[1], Head(pass.todo)[2],
                                 ProviderFrame)
                   ELSE UNCHANGED <<storeVars, ret>>
    /\ UNCHANGED <<gasVars, download, writers>>

-----------------------------------------------------------------------------
(* extractor.py: get_full_forecast, and the caller's handling of its result. *)

MaxHours == 12

\* cfg['fxx_hours']: the first MaxHours forecast hours of a model (every
\* configured list starts 6, 12, 18, ...)
FxxHours == [i \in 1..MaxHours |-> 6 * i]

\* no minimum at all
NoMinimum(total) == 0

\* min_required = int(total * 0.75)
MinRequired(total) == (total * 3) \div 4

ConsecutiveLimit == 3

\* dt + timedelta(hours=h)
PlusHours(dt, h) == MinusHours(dt, 0 - h)

\* the row appended for a downloaded hour: valid.strftime('%Y-%m-%d') and the
\* mean degree days of the grid
HourRow(cycle, fxx) ==
    [valid_date |-> PlusHours(InstantOf(cycle[1], cycle[2]), fxx).date,
     HDD |-> 30, CDD |-> 0]

RECURSIVE SortDates(_)
SortDates(dates) ==
    IF dates = {} THEN <<>>
    ELSE LET first == CHOOSE d \in dates : \A e \in dates : ~DateLess(e, d)
         IN <<first>> \o SortDates(dates \ {first})

RECURSIVE SumOf(_, _, _)
SumOf(rows, column, valid_date) ==
    IF rows = <<>> THEN 0
    ELSE (IF Head(rows).valid_date = valid_date THEN Head(rows)[column] ELSE 0)
         + SumOf(Tail(rows), column, valid_date)

\* df.groupby('valid_date')[['HDD', 'CDD']].mean().reset_index()
GroupByValidDate(rows) ==
    LET dates == SortDates({ rows[i].valid_date : i \in 1..Len(rows) })
        count(d) == Cardinality({ i \in 1..Len(rows) : rows[i].valid_date = d })
    IN [k \in 1..Len(dates) |->
           [valid_date |-> dates[k],
            HDD |-> SumOf(rows, "HDD", dates[k]) \div count(dates[k]),
            CDD |-> SumOf(rows, "CDD", dates[k]) \div count(dates[k])]]

\* pd.DataFrame(columns=['valid_date', 'HDD', 'CDD'])
EmptyFrame == <<>>

\* get_full_forecast after the download loop: what it returns
FullForecastResult(rows, aborted, total) ==
    IF rows = <<>> THEN EmptyFrame
    ELSE IF aborted /\ Len(rows) < MinRequired(total) THEN EmptyFrame
    ELSE GroupByValidDate(rows)

\* the cycles fetched one at a time
FetchTargets ==
    { <<"gfs", <<<<2024, 1, 1>>, 0>> >>, <<"ecmwf", <<<<2024, 2, 28>>, 12>> >>,
      <<"icon", <<<<2024, 1, 1>>, 6>> >> }

\* get_full_forecast up to the download loop: _get_config raises for an unknown
\* model, an unavailable run returns the empty frame
BeginFullForecast ==
    /\ download.pc = "idle"
    /\ \E target \in FetchTargets, available \in BOOLEAN :
           LET call == [pc |-> "loop", model |-> target[1], cycle |-> target[2],
                        total |-> Len(FxxHours), i |-> 0, rows |-> <<>>,
                        consecutive_failures |-> 0, aborted |-> FALSE,
                        outcomes |-> <<>>, result |-> EmptyFrame]
           IN download' =
                  IF target[1] \notin DOMAIN MODEL_CONFIG
                  THEN [call EXCEPT !.pc = "raised"]
                  ELSE IF ~available THEN [call EXCEPT !.pc = "returned"]
                  ELSE call
    /\ UNCHANGED <<storeVars, gasVars, ret, pass, writers>>

\* the counter left as it was by a download that succeeded
KeepCount(failures) == failures

\* consecutive_failures = 0, after a get_forecast that returned
AfterSuccess(failures) == 0

\* get_full_forecast: one turn of for i, fxx in enumerate(fxx_hours, 1)
DownloadHour ==
    /\ download.pc = "loop" /\ download.i < download.total /\ ~download.aborted
    /\ \E ok \in BOOLEAN :
           LET fxx == FxxHours[download.i + 1]
               failures == download.consecutive_failures + 1
           IN download' =
                  IF ok
                  THEN [download EXCEPT
                           !.i = download.i + 1,
                           !.consecutive_failures =
                               AfterSuccess(download.consecutive_failures),
                           !.rows = Append(download.rows, HourRow(download.cycle, fxx)),
                           !.outcomes = Append(download.outcomes, TRUE)]
                  ELSE [download EXCEPT
                           !.i = download.i + 1, !.consecutive_failures = failures,
                           !.aborted = (failures >= ConsecutiveLimit),
                           !.outcomes = Append(download.outcomes, FALSE)]
    /\ UNCHANGED <<storeVars, gasVars, ret, pass, writers>>

\* get_full_forecast after the loop: the daily frame or the empty frame
ReturnDaily ==
    /\ download.pc = "loop" /\ (download.i = download.total \/ download.aborted)
    /\ download' = [download EXCEPT
                       !.pc = "returned",
                       !.result = FullForecastResult(download.rows, download.aborted,
                                                     download.total)]
    /\ UNCHANGED <<storeVars, gasVars, ret, pass, writers>>

\* run_once and _backfill after get_full_forecast: save_run on a non-empty
\* frame, a printed line on an exception
CacheForecast ==
    /\ download.pc \in {"returned", "raised"}
    /\ download' = [download EXCEPT !.pc = "handled"]
    /\ IF download.pc = "returned" /\ download.result # EmptyFrame
       THEN save_run(download.model, download.cycle[1], download.cycle[2],
                     download.result)
       ELSE UNCHANGED <<storeVars, ret>>
    /\ UNCHANGED <<gasVars, pass, writers>>

-----------------------------------------------------------------------------
(* save_run as the SQLite transaction it is: "with self._conn() as conn"     *)
(* opens a connection, the first INSERT takes the write lock, the rows are   *)
(* private to the connection until the commit at the end of the block, and   *)
(* an exception or the death of the process rolls them back.                 *)

\* the processes that write the forecast store
Writers == {"scheduler", "main"}

\* the series the provider returns in the row-by-row runs
ProviderSeries ==
    <<[valid_date |-> <<2024, 1, 4>>, HDD |-> 30, CDD |-> 0],
      [valid_date |-> <<2024, 1, 5>>, HDD |-> 0, CDD |-> 8]>>

\* the rows written so far stay in the file
KeepPartial(table, view) == view

\* rollback: the file keeps what was committed
Rollback(table, view) == table

\* no write lock at all
NoLock(w) == FALSE

\* the connection that holds the write lock: it has executed an INSERT and
\* has not committed
HoldsLock(w) == writers[w].pc = "open" /\ writers[w].i > 0

\* with self._conn() as conn: save_run entered, nothing executed yet
OpenTransaction(model, run_date, run_hour, daily_df) ==
    [pc |-> "open", id |-> <<model, run_date, run_hour>>, frame |-> daily_df,
     i |-> 0, view |-> forecasts]

\* conn.execute(INSERT OR REPLACE ...) for the next row of daily_df
InsertNextRow(tx) ==
    LET table == IF tx.i = 0 THEN forecasts ELSE tx.view
        row == tx.frame[tx.i + 1]
    IN [tx EXCEPT
           !.i = tx.i + 1,
           !.view = InsertOrReplaceForecast(
                        table,
                        ForecastRow(tx.id[1], tx.id[2], tx.id[3], row))]

\* save_run: one INSERT OR REPLACE of writer w; it needs the write lock
SaveRunInsert(w) ==
    /\ writers[w].pc = "open" /\ writers[w].i < Len(writers[w].frame)
    /\ \A o \in Writers \ {w} : ~HoldsLock(o)
    /\ writers' = [writers EXCEPT ![w] = InsertNextRow(writers[w])]

\* save_run: the end of the with block commits what the connection wrote
SaveRunCommit(w) ==
    /\ writers[w].pc = "open" /\ writers[w].i = Len(writers[w].frame)
    /\ forecasts' = IF writers[w].i = 0 THEN forecasts ELSE writers[w].view
    /\ lastSaved' = (writers[w].id :>
                         SaveRecord(forecasts, writers[w].id, writers[w].frame))
                    @@ lastSaved
    /\ ret' = NoReturn
    /\ writers' = [writers EXCEPT ![w] = Idle]

\* the cycles the two processes write at the same time
WriterIds ==
    { <<"gfs", <<2024, 1, 4>>, 0>>, <<"gfs", <<2024, 1, 4>>, 6>>,
      <<"ecmwf", <<2024, 1, 4>>, 0>> }

\* a process enters save_run with the provider's series
BeginSaveRun ==
    /\ \E w \in Writers, id \in WriterIds :
           /\ writers[w].pc = "idle"
           /\ writers' = [writers EXCEPT ![w] =
                              OpenTransaction(id[1], id[2], id[3], ProviderSeries)]
    /\ UNCHANGED <<storeVars, gasVars, ret, pass, download>>

\* a process inserts its next row
WriterInsert ==
    /\ \E w \in Writers : SaveRunInsert(w)
    /\ UNCHANGED <<storeVars, gasVars, ret, pass, download>>

\* a process leaves save_run
WriterCommit ==
    /\ \E w \in Writers : SaveRunCommit(w)
    /\ UNCHANGED <<gasVars, pass, download>>

\* the INSERT of a process finds the write lock taken until the busy timeout:
\* sqlite3.OperationalError leaves save_run and nothing is written
WriterBusy ==
    /\ \E w \in Writers :
           /\ writers[w].pc = "open" /\ writers[w].i < Len(writers[w].frame)
           /\ \E o \in Writers \ {w} : HoldsLock(o)
           /\ writers' = [writers EXCEPT ![w] = Idle]
    /\ UNCHANGED <<storeVars, gasVars, ret, pass, download>>

\* the instants the cycle clock is read at: every half hour of a new year's
\* day and of the day after a leap day
ClockInstants ==
    { [date |-> d, hour |-> h, minute |-> m] :
          d \in { <<2024, 1, 1>>, <<2024, 3, 1>> },
          h \in 0..23, m \in {0, 30} }

\* _latest_cycle called for a configured model at an instant
LatestCycle ==
    /\ \E model \in DOMAIN MODEL_CONFIG, now_utc \in ClockInstants :
           ret' = [op |-> "_latest_cycle", model |-> model, now |-> now_utc,
                   value |-> _latest_cycle(model, now_utc)]
    /\ UNCHANGED <<storeVars, gasVars, schedVars>>

\* the instants the lookback window is computed at
WindowInstants ==
    { [date |-> d, hour |-> h, minute |-> m] :
          d \in { <<2024, 1, 1>>, <<2024, 3, 1>> },
          h \in {0, 3, 6, 12, 17}, m \in {0, 30} }

\* _recent_cycles called for a configured model at an instant
RecentCycles ==
    /\ \E model \in DOMAIN MODEL_CONFIG, now_utc \in WindowInstants :
           ret' = [op |-> "_recent_cycles", model |-> model, now |-> now_utc,
                   value |-> _recent_cycles(model, now_utc, LookbackHours)]
    /\ UNCHANGED <<storeVars, gasVars, schedVars>>

\* the cycles _backfill looks at from an anchor run
BackfillWindow ==
    /\ \E anchor \in BackfillAnchors :
           ret' = [op |-> "_backfill", model |-> anchor[1],
                   now |-> InstantOf(anchor[2], anchor[3]),
                   value |-> BackfillCycles(anchor[1], anchor[2], anchor[3],
                                            LookbackHours)]
    /\ UNCHANGED <<storeVars, gasVars, schedVars>>

\* the scheduler's model list and the instant of its first pass
LoopModels == <<"ecmwf">>
LoopStart == [date |-> <<2024, 1, 1>>, hour |-> 6, minute |-> 0]

\* hours from the start of one pass to the start of the next: the sleep of
\* the interval (here rounded up to the hour) and the time the host was busy or down
ElapsedHours == {1, 12, 30}

MaxPasses == 2

\* the (model, cycle) pairs with at least one stored row
StoredCycles == { <<r.model, <<r.run_date, r.run_hour>> >> : r \in Rows(forecasts) }

\* history: what a pass did and what the store held when it ended
PassSummary ==
    [now |-> pass.now, log |-> pass.log, expected |-> pass.expected,
     stored |-> StoredCycles, interrupted |-> (pass.pc = "interrupted")]

\* scheduler.main: the first run_once of the loop
StartScheduler ==
    /\ pass.pc = "idle"
    /\ pass' = NewPass("run_once", LoopStart, LoopModels)
    /\ UNCHANGED <<storeVars, gasVars, ret, download, writers>>

\* scheduler.main: time.sleep(interval), then run_once again
SleepThenRunOnce ==
    /\ pass.pc = "done" /\ pass.kind = "run_once"
    /\ Len(pass.history) + 1 < MaxPasses
    /\ \E h \in ElapsedHours :
           pass' = [NewPass("run_once", PlusHours(pass.now, h), pass.models)
                        EXCEPT !.faults = pass.faults,
                               !.history = Append(pass.history, PassSummary)]
    /\ UNCHANGED <<storeVars, gasVars, ret, download, writers>>

\* run_once: cache.get_all_runs(model) raises a storage error; the call is
\* outside every try block, so the error leaves run_once
ListingFails ==
    /\ pass.pc = "models" /\ pass.kind = "run_once" /\ pass.todo = <<>>
    /\ pass.mi < Len(pass.models)
    /\ pass.models[pass.mi + 1] \in DOMAIN MODEL_CONFIG
    /\ pass' = [pass EXCEPT !.pc = "crashed"]
    /\ UNCHANGED <<storeVars, gasVars, ret, download, writers>>

\* run_once and _backfill: the fetch returned data and cache.save_run raises a
\* storage error inside the try block; the transaction is rolled back and the
\* except clause prints the error
SaveRunFails ==
    /\ pass.pc = "models" /\ pass.todo # <<>>
    /\ ~AlreadyStored(Head(pass.todo), pass.existing)
    /\ pass.faults < MaxFaults
    /\ pass' = [AfterFetch(pass, Head(pass.todo), "raise") EXCEPT
                   !.log = Append(pass.log,
                                  [model |-> pass.model, cycle |-> Head(pass.todo),
                                   outcome |-> "store_error"])]
    /\ UNCHANGED <<storeVars, gasVars, ret, download, writers>>

\* run_once: get_full_forecast returned data and save_run is entered
FetchForSave ==
    /\ pass.pc = "models" /\ pass.kind = "run_once" /\ pass.todo # <<>>
    /\ ~AlreadyStored(Head(pass.todo), pass.existing)
    /\ writers["scheduler"].pc = "idle"
    /\ pass' = [pass EXCEPT !.pc = "saving"]
    /\ writers' = [writers EXCEPT !["scheduler"] =
                       OpenTransaction(pass.model, Head(pass.todo)[1],
                                       Head(pass.todo)[2], ProviderSeries)]
    /\ UNCHANGED <<storeVars, gasVars, ret, download>>

\* run_once inside save_run: one row inserted
SchedulerInsert ==
    /\ pass.pc = "saving"
    /\ SaveRunInsert("scheduler")
    /\ UNCHANGED <<storeVars, gasVars, ret, pass, download>>

\* run_once: save_run returns, fetched += 1
SchedulerCommit ==
    /\ pass.pc = "saving"
    /\ SaveRunCommit("scheduler")
    /\ pass' = [AfterFetch(pass, Head(pass.todo), "data") EXCEPT !.pc = "models"]
    /\ UNCHANGED <<gasVars, download>>

\* the scheduler is interrupted (Ctrl+C, kill) anywhere in its first pass; an
\* open transaction is rolled back
Interrupt ==
    /\ pass.pc \in {"models", "saving"} /\ pass.history = <<>>
    /\ pass' = [pass EXCEPT !.pc = "interrupted"]
    /\ forecasts' = IF pass.pc = "saving" /\ writers["scheduler"].i > 0
                    THEN Rollback(forecasts, writers["scheduler"].view)
                    ELSE forecasts
    /\ writers' = [writers EXCEPT !["scheduler"] = Idle]
    /\ UNCHANGED <<lastSaved, gasVars, ret, download>>

\* the scheduler is started again after an interruption
RestartScheduler ==
    /\ pass.pc = "interrupted"
    /\ \E h \in ElapsedHours :
           pass' = [NewPass("run_once", PlusHours(pass.now, h), pass.models)
                        EXCEPT !.faults = pass.faults,
                               !.history = Append(pass.history, PassSummary)]
    /\ UNCHANGED <<storeVars, gasVars, ret, download, writers>>

-----------------------------------------------------------------------------
(* GasFlowRegression of eia_gas/regression.py. week_end_date is counted in
   weeks; HDD, CDD and implied_flow are whole numbers, or NULL where the data
   frame holds NaN; a ratio is a pair <<numerator, denominator>>. *)

WINDOW == 156

MinObs == 10

MaxMissing == 2

Columns == {"HDD", "CDD", "implied_flow"}

\* the row of week i of a history; the named column is missing in some weeks
HistoryRow(i, missing, column) ==
    [week_end_date |-> i,
     HDD |-> IF i \in missing /\ column = "HDD" THEN NULL ELSE Some(0),
     CDD |-> IF i \in missing /\ column = "CDD" THEN NULL ELSE Some(0),
     implied_flow |-> IF i \in missing /\ column = "implied_flow"
                      THEN NULL ELSE Some(i % 2)]

HistorySizes == {5, 9, 10, 11, 12, WINDOW, WINDOW + 1, WINDOW + 4}

\* the weeks whose row may have a missing value
MissingWeeks(n) ==
    { missing \in SUBSET {1, 2, n - 1, n} : Cardinality(missing) <= MaxMissing }

\* the histories of n weeks, oldest week first
AscendingHistories(n) ==
    { [i \in 1..n |-> HistoryRow(i, missing, column)] :
          missing \in MissingWeeks(n), column \in Columns }

\* the histories of n weeks, newest week first
DescendingHistories(n) ==
    { [i \in 1..n |-> HistoryRow(n + 1 - i, missing, column)] :
          missing \in MissingWeeks(n), column \in Columns }

\* the frames fit_current and fit_rolling take: the columns of
\* get_regression_dataset, oldest week first, short ones newest week first as
\* well, a value missing in some weeks
Histories ==
    UNION { AscendingHistories(n) : n \in HistorySizes }
    \cup UNION { DescendingHistories(n) : n \in { m \in HistorySizes : m < WINDOW } }

\* rows in the order of their week already
InOrder(rows) ==
    \A i \in 1..(Len(rows) - 1) : rows[i].week_end_date <= rows[i + 1].week_end_date

\* each row at the position of its rank, rows of the same week in the order
\* they came
ByRank(rows) ==
    LET before(i) == { j \in 1..Len(rows) :
                          \/ rows[j].week_end_date < rows[i].week_end_date
                          \/ rows[j].week_end_date = rows[i].week_end_date /\ j < i }
        rank == [i \in 1..Len(rows) |-> Cardinality(before(i)) + 1]
    IN [k \in 1..Len(rows) |-> rows[CHOOSE i \in 1..Len(rows) : rank[i] = k]]

\* df.sort_values('week_end_date'), a stable sort: rows in order stay as they are
sort_values(rows) == IF InOrder(rows) THEN rows ELSE ByRank(rows)

\* df.tail(k)
tail(rows, k) ==
    IF Len(rows) <= k THEN rows ELSE SubSeq(rows, Len(rows) - k + 1, Len(rows))

NotNa(row) == row.HDD # NULL /\ row.CDD # NULL /\ row.implied_flow # NULL

\* df.dropna(subset=['HDD', 'CDD', 'implied_flow'])
dropna(rows) == SelectSeq(rows, NotNa)

\* a column of a frame without NaN
ColumnOf(rows, name) == [i \in 1..Len(rows) |-> rows[i][name][1]]

\* the sum of a[i] * b[i] for i from lo to hi, by halves
RECURSIVE DotRange(_, _, _, _)
DotRange(a, b, lo, hi) ==
    IF lo > hi THEN 0
    ELSE IF lo = hi THEN a[lo] * b[lo]
    ELSE LET mid == (lo + hi) \div 2
         IN DotRange(a, b, lo, mid) + DotRange(a, b, mid + 1, hi)

\* np.sum(a * b)
Dot(a, b) == DotRange(a, b, 1, Len(a))

\* x - x.mean(), times len(x)
Centred(x) ==
    LET total == Dot(x, [i \in 1..Len(x) |-> 1])
    IN [i \in 1..Len(x) |-> Len(x) * x[i] - total]

\* the squared length of the least-squares fit X @ beta about the mean of y,
\* for X = [1, HDD, CDD]: np.linalg.lstsq minimises |X @ beta - y|, so the fit
\* is the projection of y on the columns of X, of whatever rank they are
Explained(h, c, y) ==
    LET hh == Dot(h, h)
        cc == Dot(c, c)
        hc == Dot(h, c)
        hy == Dot(h, y)
        cy == Dot(c, y)
        det == hh * cc - hc * hc
    IN IF det > 0 THEN <<hy * hy * cc - 2 * hy * cy * hc + cy * cy * hh, det>>
       ELSE IF hh > 0 THEN <<hy * hy, hh>>
       ELSE IF cc > 0 THEN <<cy * cy, cc>>
       ELSE <<0, 1>>

\* a / b of two ratios
Divide(a, b) == <<a[1] * b[2], a[2] * b[1]>>

\* 1 - a
OneMinus(a) == <<a[2] - a[1], a[2]>>

\* the division made whatever ss_tot is
AnyTotal(x) == TRUE

\* ss_tot > 0
Positive(x) == x > 0

\* r_squared of _fit_ols
RSquared(rows) ==
    LET y == Centred(ColumnOf(rows, "implied_flow"))
        fit == Explained(Centred(ColumnOf(rows, "HDD")),
                         Centred(ColumnOf(rows, "CDD")), y)
        ss_tot == <<Dot(y, y), 1>>
        ss_res == <<Dot(y, y) * fit[2] - fit[1], fit[2]>>
    IN IF Positive(ss_tot[1]) THEN OneMinus(Divide(ss_res, ss_tot)) ELSE <<0, 1>>

\* _fit_ols: r_squared, n_obs and the window's first and last period
_fit_ols(rows) ==
    [kind |-> "coefficients",
     r_squared |-> RSquared(rows),
     n_obs |-> Len(rows),
     start_date |-> rows[1].week_end_date,
     end_date |-> rows[Len(rows)].week_end_date]

\* len(df) <= minimum
AtMost(a, b) == a <= b

\* len(df) < minimum
FewerThan(a, b) == a < b

ValueError == [kind |-> "ValueError"]

\* fit_current: the newest WINDOW rows, then the rows without NaN among them
fit_current(df) ==
    LET recent == tail(sort_values(df), WINDOW)
        clean == dropna(recent)
    IN IF FewerThan(Len(clean), MinObs) THEN ValueError ELSE _fit_ols(clean)

\* fit_current called on the history
FitCurrent ==
    /\ ret = NoReturn
    /\ ret' = [op |-> "fit_current", value |-> fit_current(frame)]
    /\ UNCHANGED <<storeVars, gasVars, schedVars>>

MaxWindowRows == 3

\* the rows a window may hold: small whole degree days and flows
WindowRows ==
    { [HDD |-> Some(h), CDD |-> Some(c), implied_flow |-> Some(f)] :
          h \in {0, 3}, c \in {0, 1}, f \in {-1, 2} }

\* a window of consecutive weeks with the given values
WindowOf(values) ==
    [i \in 1..Len(values) |-> [week_end_date |-> i] @@ values[i]]

\* the windows _fit_ols is called on, all of them without NaN
OlsWindows ==
    UNION { { WindowOf(values) : values \in [1..n -> WindowRows] } :
                n \in 2..MaxWindowRows }

\* _fit_ols called on the window
FitOls ==
    /\ ret = NoReturn
    /\ ret' = [op |-> "_fit_ols", value |-> _fit_ols(frame)]
    /\ UNCHANGED <<storeVars, gasVars, schedVars>>

MaxFailing == 2

\* the loop stopped at the first window that fails
StopRolling(later, results) == results

\* except Exception: continue
ContinueRolling(later, results) == later

\* the loop of fit_rolling from window i on; window i is rows i - WINDOW + 1
\* to i of the clean frame (df.iloc[i - WINDOW:i] counts rows from 0), and
\* _fit_ols raises in the windows of the set failing
RECURSIVE RollingFrom(_, _, _, _)
RollingFrom(clean, i, failing, results) ==
    IF i > Len(clean) - 1 THEN results
    ELSE LET window == SubSeq(clean, i - WINDOW + 1, i)
             coefs == [week_end_date |-> window[Len(window)].week_end_date]
                          @@ _fit_ols(window)
         IN IF i \in failing
            THEN ContinueRolling(RollingFrom(clean, i + 1, failing, results), results)
            ELSE RollingFrom(clean, i + 1, failing, Append(results, coefs))

\* range(self.WINDOW, len(df))
RollingWindows(clean) == WINDOW..(Len(clean) - 1)

\* fit_rolling: the frame of the results, empty when there is none
fit_rolling(df, failing) ==
    RollingFrom(dropna(sort_values(df)), WINDOW, failing, <<>>)

\* fit_rolling called on the history, np.linalg.lstsq raising in some of the
\* windows
FitRolling ==
    /\ ret = NoReturn
    /\ \E failing \in SUBSET RollingWindows(dropna(sort_values(frame))) :
           /\ Cardinality(failing) <= MaxFailing
           /\ ret' = [op |-> "fit_rolling", failing |-> failing,
                      value |-> fit_rolling(frame, failing)]
    /\ UNCHANGED <<storeVars, gasVars, schedVars>>

-----------------------------------------------------------------------------
(* The forecast side of GasFlowRegression: _aggregate_to_gas_weeks and
   predict_from_forecast. Daily degree days are whole numbers; coefficients,
   flows and storage levels are counted in hundredths, the coefficients in
   steps of 0.02, so that no flow or level lies halfway between two tenths. *)

MaxDays == 10

\* date.weekday(): Monday is 0, Sunday is 6
weekday(date) == (ToOrdinal(date) + 6) % 7

\* d + timedelta(days=k)
PlusDays(date, k) == FromOrdinal(ToOrdinal(date) + k)

\* every day mapped to the Thursday of the week before
PreviousThursday(date) == PlusDays(date, 0 - ((weekday(date) + 4) % 7))

\* gas_week_end: the Thursday that ends the Friday-Thursday week of the day
gas_week_end(date) ==
    LET wd == weekday(date)
    IN IF wd <= 3 THEN PlusDays(date, 3 - wd) ELSE PlusDays(date, 10 - wd)

ForecastStarts == { PlusDays(<<2023, 12, 25>>, k) : k \in 0..13 }

\* a daily series of n consecutive days from start
DailyForecast(start, n, p) ==
    [i \in 1..n |-> [valid_date |-> PlusDays(start, i - 1),
                           HDD |-> (i * p) % 4, CDD |-> (i + p) % 2]]

\* the rows of a frame from the last to the first
Reversed(rows) == [i \in 1..Len(rows) |-> rows[Len(rows) + 1 - i]]

\* the daily frames handed to the regression: consecutive days, in either order
DailyForecasts ==
    LET ascending == { DailyForecast(start, n, p) :
                           start \in ForecastStarts, n \in 0..MaxDays, p \in {1, 3} }
    IN ascending \cup { Reversed(rows) : rows \in ascending }

\* the dates of a set from the earliest to the latest
DatesInOrder(dates) ==
    [k \in 1..Cardinality(dates) |->
        CHOOSE d \in dates : Cardinality({ e \in dates : DateLess(e, d) }) = k - 1]

\* the column averaged over the days of the week (agg 'mean')
MeanColumn(rows, name, week_end, i) ==
    LET inWeek == [j \in 1..Len(rows) |->
                      IF gas_week_end(rows[j].valid_date) = week_end THEN 1 ELSE 0]
    IN Dot([j \in 1..Len(rows) |-> rows[j][name]], inWeek) \div Dot(inWeek, inWeek)

RECURSIVE SumColumn(_, _, _, _)
SumColumn(rows, name, week_end, i) ==
    IF i > Len(rows) THEN 0
    ELSE (IF gas_week_end(rows[i].valid_date) = week_end THEN rows[i][name] ELSE 0)
             + SumColumn(rows, name, week_end, i + 1)

\* _aggregate_to_gas_weeks: groupby('week_end') with HDD and CDD summed and
\* the days counted, one row per week in the order of the weeks
_aggregate_to_gas_weeks(daily_df) ==
    LET ends == DatesInOrder({ gas_week_end(daily_df[i].valid_date) : i \in 1..Len(daily_df) })
    IN [k \in 1..Len(ends) |->
           [week_end_date |-> ends[k],
            HDD |-> SumColumn(daily_df, "HDD", ends[k], 1),
            CDD |-> SumColumn(daily_df, "CDD", ends[k], 1),
            days_in_week |->
                Cardinality({ i \in 1..Len(daily_df) :
                                  gas_week_end(daily_df[i].valid_date) = ends[k] })]]

\* _aggregate_to_gas_weeks called on the daily frame
AggregateToGasWeeks ==
    /\ ret = NoReturn
    /\ ret' = [op |-> "_aggregate_to_gas_weeks",
               value |-> _aggregate_to_gas_weeks(frame)]
    /\ UNCHANGED <<storeVars, gasVars, schedVars>>

\* round(x, 1) of a number of hundredths
Round1(x) == ((x + 5) \div 10) * 10

\* the coefficients fit_current hands over, in hundredths
CoefficientSets ==
    { [intercept |-> a, beta_hdd |-> b, beta_cdd |-> c] :
          a \in {-5012, 1234}, b \in {-246, 38}, c \in {52} }

StorageLevelsBcf == {200000, 312346}

\* cum_storage carried on with the rounded flow
AddRounded(cum_storage, flow) == cum_storage + Round1(flow)

\* cum_storage += flow
AddFlow(cum_storage, flow) == cum_storage + flow

\* the loop of predict_from_forecast over the weeks, from week i on
RECURSIVE PredictFrom(_, _, _, _, _)
PredictFrom(coefficients, weekly, i, cum_storage, rows) ==
    IF i > Len(weekly) THEN rows
    ELSE LET wk == weekly[i]
             flow == coefficients.intercept + coefficients.beta_hdd * wk.HDD
                         + coefficients.beta_cdd * wk.CDD
             cum == AddFlow(cum_storage, flow)
         IN PredictFrom(coefficients, weekly, i + 1, cum,
                Append(rows, [week_end_date |-> wk.week_end_date,
                              forecast_HDD |-> Round1(100 * wk.HDD),
                              forecast_CDD |-> Round1(100 * wk.CDD),
                              implied_flow_bcf |-> Round1(flow),
                              forecast_storage_bcf |-> Round1(cum),
                              days_in_week |-> wk.days_in_week]))

\* predict_from_forecast: the frame of the weekly rows, empty for no week
predict_from_forecast(coefficients, daily_df, latest_storage_bcf) ==
    PredictFrom(coefficients, _aggregate_to_gas_weeks(daily_df), 1,
                latest_storage_bcf, <<>>)

\* predict_from_forecast called on the daily frame
PredictFromForecast ==
    /\ ret = NoReturn
    /\ \E coefficients \in CoefficientSets, latest_storage_bcf \in StorageLevelsBcf :
           ret' = [op |-> "predict_from_forecast", coefficients |-> coefficients,
                   latest_storage_bcf |-> latest_storage_bcf,
                   value |-> predict_from_forecast(coefficients, frame,
                                                   latest_storage_bcf)]
    /\ UNCHANGED <<storeVars, gasVars, schedVars>>

-----------------------------------------------------------------------------
(* Both caches side by side: ForecastCache and GasDataCache under every     *)
(* writer, and the reads of each.                                            *)

\* the cycle the forecast table is written for, the storage reports and the
\* CPC weeks the gas tables are written with
StoreIds == { <<"gfs", <<2024, 1, 5>>, 0>> }
StoreReports == { f \in StorageFrames :
                    Len(f) = 1 /\ f[1].period \in { <<2024, 2, 23>>, <<2024, 3, 1>> } }
StoreWeeks == { f \in DegreeDayFrames :
                  Len(f) = 1 /\ f[1].week_end_date \in { <<2024, 2, 22>>, <<2024, 2, 29>> } }

\* SELECT week_end_date, hdd AS HDD, cdd AS CDD FROM noaa_cpc_degree_days
\* ORDER BY week_end_date (no start_date, no end_date)
get_degree_days_value(table) ==
    LET sorted == OrderByPeriodAsc(Rows(table))
    IN [i \in 1..Len(sorted) |->
           [week_end_date |-> sorted[i].week_end_date,
            HDD |-> sorted[i].hdd, CDD |-> sorted[i].cdd]]

get_degree_days ==
    /\ ret' = [op |-> "get_degree_days",
               value |-> DataFrame(get_degree_days_value(noaa_cpc_degree_days))]
    /\ UNCHANGED gasVars

StoreSaveRun ==
    /\ \E id \in StoreIds, daily_df \in RecentFrames :
           save_run(id[1], id[2], id[3], daily_df)
    /\ UNCHANGED <<gasVars, schedVars>>

StoreGetRun ==
    /\ \E id \in StoreIds : get_run(id[1], id[2], id[3])
    /\ UNCHANGED <<gasVars, schedVars>>

StoreSaveStorage ==
    /\ \E df \in StoreReports : save_storage(df)
    /\ UNCHANGED <<storeVars, schedVars>>

StoreSaveDegreeDays ==
    /\ \E df \in StoreWeeks : save_degree_days(df)
    /\ UNCHANGED <<storeVars, schedVars>>

GetDegreeDays ==
    /\ get_degree_days
    /\ UNCHANGED <<storeVars, schedVars>>

-----------------------------------------------------------------------------
(* eia_gas/noaa_cpc.py: NOAACPCClient.fetch_history_range, called with the   *)
(* cache (gas_main.py: cmd_bootstrap, cmd_update).                           *)

\* start_date and end_date of the calls: a Tuesday, a Friday and a later
\* Friday; a Wednesday and a Thursday
RangeStarts == { <<2024, 2, 20>>, <<2024, 2, 23>>, <<2024, 3, 1>> }
RangeEnds == { <<2024, 2, 28>>, <<2024, 3, 7>> }

\* what fetch_archive_week returns for the heating and the cooling file of a
\* week: the total, or None (a 404, a request error, no UNITED STATES row)
None == <<>>
ArchiveAnswers ==
    { [hdd |-> None, cdd |-> <<5>>], [hdd |-> <<0>>, cdd |-> None],
      [hdd |-> <<180>>, cdd |-> <<5>>] }

NoCall == [op |-> "none"]

\* while d.weekday() != 3: d += timedelta(days=1)
RECURSIVE FirstThursday(_)
FirstThursday(d) == IF weekday(d) = 3 THEN d ELSE FirstThursday(PlusDays(d, 1))

\* while d <= end: yield d; d += timedelta(days=7)
RECURSIVE EverySeventh(_, _)
EverySeventh(d, end) ==
    IF DateLess(end, d) THEN <<>>
    ELSE <<d>> \o EverySeventh(PlusDays(d, 7), end)

_all_thursdays(start, end) == EverySeventh(FirstThursday(start), end)

\* no week passed over
NeverCached(date_str, cached_dates) == FALSE

\* if date_str in cached_dates: continue
IsCached(date_str, cached_dates) == date_str \in cached_dates

\* cached_dates = set(existing['week_end_date'].tolist())
cached_dates_of(table) ==
    LET existing == get_degree_days_value(table)
    IN { existing[i].week_end_date : i \in 1..Len(existing) }

\* the Thursdays the loop does not pass over, in order
RECURSIVE ToRequest(_, _, _)
ToRequest(thursdays, cached_dates, i) ==
    IF i > Len(thursdays) THEN <<>>
    ELSE (IF IsCached(thursdays[i], cached_dates) THEN <<>> ELSE <<thursdays[i]>>)
             \o ToRequest(thursdays, cached_dates, i + 1)

\* cdd or 0
OrZero(v) == IF v = None \/ v = <<0>> THEN 0 ELSE v[1]

\* the loop body from the week at position i on: rows.append(...) and
\* cache.save_degree_days(pd.DataFrame([rows[-1]])) if hdd is not None
RECURSIVE FetchWeeks(_, _, _, _, _)
FetchWeeks(table, rows, weeks, answers, i) ==
    IF i > Len(weeks) THEN [table |-> table, rows |-> rows]
    ELSE LET thu == weeks[i]
             hdd == answers[thu].hdd
             row == [week_end_date |-> thu, HDD |-> hdd[1],
                     CDD |-> OrZero(answers[thu].cdd)]
         IN IF hdd # None
            THEN FetchWeeks(SaveDegreeDayRows(table, <<row>>, 1), Append(rows, row),
                            weeks, answers, i + 1)
            ELSE FetchWeeks(table, rows, weeks, answers, i + 1)

\* history of a call: its range, the weeks it requested, in order, and those
\* whose heating total it did not get; and the same of the call before
CallRecord(start, end, weeks, answers) ==
    [op |-> "fetch_history_range", start |-> start, end |-> end,
     requested |-> weeks,
     unavailable |-> { weeks[i] : i \in { j \in 1..Len(weeks) : answers[weeks[j]].hdd = None } },
     before |-> IF cpc.op = "none" THEN {} ELSE cpc.unavailable]

fetch_history_range(start_date, end_date, answers, weeks) ==
    LET done == FetchWeeks(noaa_cpc_degree_days, <<>>, weeks, answers, 1)
    IN /\ noaa_cpc_degree_days' = done.table
       /\ cpc' = CallRecord(start_date, end_date, weeks, answers)
       /\ ret' = [op |-> "fetch_history_range", value |-> DataFrame(done.rows)]
       /\ UNCHANGED <<eia_storage, lastOp, frame, paging>>

FetchHistoryRange ==
    /\ \E start_date \in RangeStarts, end_date \in RangeEnds :
           LET weeks == ToRequest(_all_thursdays(start_date, end_date),
                                  cached_dates_of(noaa_cpc_degree_days), 1)
           IN \E answers \in [{ weeks[i] : i \in 1..Len(weeks) } -> ArchiveAnswers] :
                  fetch_history_range(start_date, end_date, answers, weeks)
    /\ UNCHANGED <<storeVars, schedVars>>

-----------------------------------------------------------------------------
(* eia_gas/client.py: EIAStorageClient.fetch_storage, the pages of the EIA   *)
(* API read one request at a time.                                           *)

\* the most rows the server puts in a page ('length'), and the largest total
\* it reports
MaxPage == 2
MaxTotal == 4

\* the 'value' of a row: a number, or text that to_numeric coerces to NaN
PageValues == { Some(95), NULL }

\* the offset left where it was
StayAt(offset, n) == offset

\* params['offset'] += len(rows)
Advance(offset, n) == offset + n

\* the rows of a page requested at an offset: the server's rows at the
\* positions after it, 'period' ascending
PageRows(offset, values) ==
    [j \in 1..Len(values) |-> [period |-> offset + j, value |-> values[j]]]

\* df.dropna(subset=['storage_bcf'])
RECURSIVE DropNaValues(_)
DropNaValues(rows) ==
    IF rows = <<>> THEN <<>>
    ELSE (IF Head(rows).value = NULL THEN <<>> ELSE <<Head(rows)>>)
             \o DropNaValues(Tail(rows))

PeriodBefore(a, b) == a.period < b.period

\* after the loop: the frame of period and storage_bcf, rows without a
\* number dropped, sorted by period
StorageFrameOf(all_rows) ==
    LET kept == SortSeq(DropNaValues(all_rows), PeriodBefore)
    IN DataFrame([i \in 1..Len(kept) |->
                      [period |-> kept[i].period, storage_bcf |-> kept[i].value[1]]])

\* fetch_storage up to the loop: offset 0, no row collected
BeginFetchStorage ==
    /\ paging.pc \in {"idle", "done", "raised"}
    /\ paging' = [pc |-> "loop", offset |-> 0, all_rows |-> <<>>,
                  requests |-> <<>>, pages |-> <<>>, totals |-> <<>>]
    /\ ret' = NoReturn
    /\ UNCHANGED <<storeVars, schedVars, eia_storage, noaa_cpc_degree_days, lastOp,
                   frame, cpc>>

\* one turn of while True: the request at params['offset'], and what follows
\* the loop when the turn ends it
FetchPage ==
    /\ paging.pc = "loop" /\ Len(paging.requests) <= MaxTotal
    /\ \/ \* resp.raise_for_status() raises
          /\ paging' = [paging EXCEPT
                           !.pc = "raised",
                           !.requests = Append(paging.requests, paging.offset)]
          /\ ret' = NoReturn
       \/ \E n \in 0..MaxPage, total \in 0..MaxTotal :
              \E values \in [1..n -> PageValues] :
                  LET rows == PageRows(paging.offset, values)
                      offset == Advance(paging.offset, n)
                      all_rows == paging.all_rows \o rows
                      ends == n = 0 \/ offset >= total
                  IN /\ paging' =
                            IF n = 0
                            THEN [paging EXCEPT
                                     !.pc = "done",
                                     !.requests = Append(paging.requests, paging.offset),
                                     !.pages = Append(paging.pages, rows)]
                            ELSE [paging EXCEPT
                                     !.pc = IF ends THEN "done" ELSE "loop",
                                     !.offset = offset, !.all_rows = all_rows,
                                     !.requests = Append(paging.requests, paging.offset),
                                     !.pages = Append(paging.pages, rows),
                                     !.totals = Append(paging.totals, total)]
                     /\ ret' = IF ends
                               THEN [op |-> "fetch_storage",
                                     value |-> StorageFrameOf(all_rows)]
                               ELSE NoReturn
    /\ UNCHANGED <<storeVars, schedVars, eia_storage, noaa_cpc_degree_days, lastOp,
                   frame, cpc>>

InitStore ==
    /\ forecasts = EmptyTable
    /\ lastSaved = [id \in CycleIds |-> NoSeries]
    /\ ret = NoReturn

\* the gas tables as GasDataCache._init_db creates them
InitTables ==
    /\ eia_storage = EmptyTable
    /\ cpc = NoCall
    /\ paging = Idle
    /\ noaa_cpc_degree_days = EmptyTable
    /\ lastOp = [op |-> "none"]

InitGas ==
    /\ InitTables
    /\ frame = <<>>

Init ==
    /\ InitStore /\ InitGas
    /\ pass = Idle /\ download = Idle
    /\ writers = [w \in Writers |-> Idle]

Next == SaveRun \/ GetRun

\* the forecast store under save_run and get_run
Spec == Init /\ [][Next]_vars

NextGas == SaveStorage \/ RecomputeImpliedFlows

\* the storage table under save_storage (any batch) and recompute_implied_flows
SpecGas == Init /\ [][NextGas]_vars

NextDataset ==
    SaveStorageRow \/ RecomputeImpliedFlows \/ SaveDegreeDays \/ GetRegressionDataset

\* both gas tables under their writers, read by get_regression_dataset
SpecDataset == Init /\ [][NextDataset]_vars

NextStorage == SaveStorage

NextPass == StartRunOnce \/ RunOnceNextModel \/ RunOnceCycle \/ StartBackfill \/ BackfillCycle

NextFetch == BeginFullForecast \/ DownloadHour \/ ReturnDaily \/ CacheForecast

\* one cycle fetched hour by hour and handed to the store
SpecFetch == Init /\ [][NextFetch]_vars

NextLoop == StartScheduler \/ RunOnceNextModel \/ RunOnceCycle \/ SleepThenRunOnce

\* the scheduler's loop: pass after pass on the same store
SpecLoop == Init /\ [][NextLoop]_vars

NextStoreFault ==
    StartScheduler \/ RunOnceNextModel \/ RunOnceCycle \/ ListingFails \/ SaveRunFails

\* one pass of the scheduler on a store that can fail
SpecStoreFault == Init /\ [][NextStoreFault]_vars

NextInterrupt ==
    \/ StartScheduler \/ RunOnceNextModel \/ RunOnceCycle
    \/ FetchForSave \/ SchedulerInsert \/ SchedulerCommit
    \/ Interrupt \/ RestartScheduler

\* the scheduler interrupted and started again, save_run row by row
SpecInterrupt == Init /\ [][NextInterrupt]_vars

NextWriters == BeginSaveRun \/ WriterInsert \/ WriterCommit \/ WriterBusy

\* the scheduler and main.py writing the store at the same time
SpecWriters == Init /\ [][NextWriters]_vars

NextRecent == SaveRecentRun \/ GetRecentRuns

\* runs saved and the most recent ones listed
SpecRecent == Init /\ [][NextRecent]_vars

NextClock == LatestCycle

\* the cycle clock read at any instant
SpecClock == Init /\ [][NextClock]_vars

\* a history handed to the regression
InitRegression ==
    /\ InitStore /\ InitTables
    /\ frame \in Histories
    /\ pass = Idle /\ download = Idle
    /\ writers = [w \in Writers |-> Idle]

NextRegression == FitCurrent \/ FitRolling

\* the regression fitted on a history
SpecRegression == InitRegression /\ [][NextRegression]_vars

\* a window handed to _fit_ols
InitOls ==
    /\ InitStore /\ InitTables
    /\ frame \in OlsWindows
    /\ pass = Idle /\ download = Idle
    /\ writers = [w \in Writers |-> Idle]

NextOls == FitOls

\* one least-squares fit of a window
SpecOls == InitOls /\ [][NextOls]_vars

\* a daily forecast handed to the regression
InitForecast ==
    /\ InitStore /\ InitTables
    /\ frame \in DailyForecasts
    /\ pass = Idle /\ download = Idle
    /\ writers = [w \in Writers |-> Idle]

NextForecast == AggregateToGasWeeks \/ PredictFromForecast

\* a daily forecast put into gas weeks and projected
SpecForecast == InitForecast /\ [][NextForecast]_vars

NextObservationStore ==
    \/ StoreSaveRun \/ StoreGetRun \/ GetRecentRuns
    \/ StoreSaveStorage \/ RecomputeImpliedFlows \/ StoreSaveDegreeDays
    \/ GetRegressionDataset \/ GetDegreeDays

\* the three tables under every writer and the reads
SpecObservationStore == Init /\ [][NextObservationStore]_vars

NextHistory == FetchHistoryRange \/ SaveDegreeDays

\* the degree-day table under fetch_history_range calls over any of the
\* ranges, and the live week saved between them
SpecHistory == Init /\ [][NextHistory]_vars

NextPages == BeginFetchStorage \/ FetchPage

\* fetch_storage called again and again; a call in its loop makes its next
\* request (every request returns or raises: timeout=30)
SpecPages == Init /\ [][NextPages]_vars /\ WF_vars(FetchPage)

NextWindow == RecentCycles \/ BackfillWindow

\* the lookback window computed at any instant
SpecWindow == Init /\ [][NextWindow]_vars

\* one backfill pass, of the scheduler or of main.py, on an empty store
SpecPass == Init /\ [][NextPass]_vars

\* the storage table under save_storage calls alone
SpecStorage == Init /\ [][NextStorage]_vars

-----------------------------------------------------------------------------
(* Claims on the forecast store.                                            *)

\* the rows a get_run value carries (None carries none)
SeriesOf(value) == IF value.kind = "df" THEN value.rows ELSE <<>>

StrictlyAscending(rows) ==
    \A i \in 1..Len(rows) - 1 : DateLess(rows[i].valid_date, rows[i + 1].valid_date)

\* C1 (as stated): get_run of a cycle returns exactly the series given to the
\* most recent save_run of that cycle, whatever earlier calls stored under it
\* (stated here for a non-empty most recent series).
C1_GetRunEqualsLastSave ==
    (ret.op = "get_run" /\ lastSaved[ret.id].kind = "df"
         /\ Len(lastSaved[ret.id].rows) > 0)
        => SeriesOf(ret.value) = lastSaved[ret.id].rows

\* C1 (amended): get_run returns every row of the most recent save_run with
\* its values, no valid date twice, in ascending order; the valid dates it
\* returns are those of the most recent series together with the valid dates
\* the cycle already held, so it equals the most recent series exactly when
\* the cycle held no valid date outside that series.
C1_GetRunCoversLastSave ==
    (ret.op = "get_run" /\ lastSaved[ret.id].kind = "df")
        => LET got == SeriesOf(ret.value)
               last == lastSaved[ret.id]
           IN /\ StrictlyAscending(got)
              /\ \A i \in 1..Len(last.rows) :
                     \E j \in 1..Len(got) : got[j] = last.rows[i]
              /\ FrameDates(got) = FrameDates(last.rows) \cup last.before
              /\ (last.before \subseteq FrameDates(last.rows)) <=> (got = last.rows)

\* C1 witness: get_run after a save_run that changed the values of a stored
\* valid date and left another stored valid date out of its series.
C1_Witness ==
    /\ ret.op = "get_run"
    /\ lastSaved[ret.id].kind = "df"
    /\ Len(lastSaved[ret.id].rows) = 1
    /\ Cardinality(lastSaved[ret.id].before) = 2
    /\ Len(SeriesOf(ret.value)) = 2

\* the stored rows under one key
ForecastKeyRows(key) == { q \in Rows(forecasts) : ForecastKey(q) = key }

\* C2: the forecast table holds at most one row per key (model, run_date,
\* run_hour, valid_date), and the row under a key written by the latest
\* save_run of its cycle is that call's row (last write wins, no second row).
C2_OneRowPerKey ==
    /\ \A r \in Rows(forecasts) :
           CountRows(Where(forecasts, ForecastKeyRows(ForecastKey(r)))) = 1
    /\ \A id \in CycleIds :
           lastSaved[id].kind = "df" =>
               \A i \in 1..Len(lastSaved[id].rows) :
                   LET row == ForecastRow(id[1], id[2], id[3], lastSaved[id].rows[i])
                   IN /\ CountRows(Where(forecasts, ForecastKeyRows(ForecastKey(row)))) = 1
                      /\ row \in Rows(forecasts)

\* C2 witness: a save_run wrote a key that already existed, with other values.
C2_Witness ==
    \E id \in CycleIds :
        /\ lastSaved[id].kind = "df"
        /\ \E i \in 1..Len(lastSaved[id].rows) :
               lastSaved[id].rows[i].valid_date \in lastSaved[id].before
        /\ BagCardinality(forecasts) >= 3

-----------------------------------------------------------------------------
(* Claims on the gas store.                                                 *)

\* a is chronologically before b
Before(a, b) == ToOrdinal(a) < ToOrdinal(b)

\* the stored periods before the period of row r
EarlierPeriods(r) == { q \in Rows(eia_storage) : Before(q.period, r.period) }

\* the flow row r must carry: its level minus the level of the chronologically
\* preceding stored period, null when no earlier period is stored
ExpectedFlow(r) ==
    IF EarlierPeriods(r) = {} THEN NULL
    ELSE LET pred == CHOOSE q \in EarlierPeriods(r) :
                         \A o \in EarlierPeriods(r) : ~Before(q.period, o.period)
         IN Some(r.storage_bcf - pred.storage_bcf)

\* C3: after recompute_implied_flows every stored period's implied_flow is its
\* level minus the level of the chronologically preceding stored period (null
\* for the earliest), whatever the order and batches of the save_storage calls.
C3_RecomputeGivesChronologicalDiff ==
    lastOp.op = "recompute_implied_flows"
        => \A r \in Rows(eia_storage) : r.implied_flow = ExpectedFlow(r)

\* C3 witness: recompute_implied_flows repaired a flow in a store of three periods.
C3_Witness ==
    /\ lastOp.op = "recompute_implied_flows"
    /\ lastOp.changed >= 1
    /\ Cardinality(Rows(eia_storage)) = 3

\* C4 (as stated): under save_storage calls alone, every stored period that has
\* an earlier stored period carries its level minus the current level of its
\* strict chronological predecessor.
C4_SaveKeepsAllFlowsCurrent ==
    \A r \in Rows(eia_storage) :
        EarlierPeriods(r) # {} => r.implied_flow = ExpectedFlow(r)

\* C4 (amended): under save_storage calls alone, every period written by the
\* most recent save_storage call carries its level minus the current level of
\* its strict chronological predecessor (null when it has none); periods the
\* call did not write keep the flow they had.
C4_SaveKeepsWrittenFlowsCurrent ==
    lastOp.op = "save_storage"
        => \A r \in Rows(eia_storage) :
               r.period \in lastOp.periods => r.implied_flow = ExpectedFlow(r)

\* C4 witness: the latest save_storage wrote two periods, one of them in front
\* of a period stored before, whose flow is now out of date.
C4_Witness ==
    /\ lastOp.op = "save_storage"
    /\ Cardinality(lastOp.periods) = 2
    /\ \E r \in Rows(eia_storage) :
           /\ r.period \notin lastOp.periods
           /\ r.implied_flow # ExpectedFlow(r)
           /\ \E q \in EarlierPeriods(r) : q.period \in lastOp.periods

\* C5 (as stated): after any sequence of save_storage and
\* recompute_implied_flows calls, a stored period has a null implied_flow if
\* and only if no earlier period is stored.
C5_NullIffNoEarlierPeriod ==
    \A r \in Rows(eia_storage) :
        (r.implied_flow = NULL) <=> (EarlierPeriods(r) = {})

\* C5 (amended): a stored period with a non-null implied_flow always has an
\* earlier stored period (the earliest period's flow is null); a period with
\* an earlier stored period has a non-null flow once it has been written by
\* the latest save_storage or recompute_implied_flows has run since.
C5_NullOnlyWithoutEarlierPeriod ==
    \A r \in Rows(eia_storage) :
        /\ r.implied_flow # NULL => EarlierPeriods(r) # {}
        /\ (\/ lastOp.op = "recompute_implied_flows"
            \/ lastOp.op = "save_storage" /\ r.period \in lastOp.periods)
               => ((r.implied_flow = NULL) <=> (EarlierPeriods(r) = {}))

\* C5 witness: a period stored with a null flow, then an earlier period saved
\* in front of it, and the flow of the later one still null.
C5_Witness ==
    /\ lastOp.op = "save_storage"
    /\ \E r \in Rows(eia_storage) :
           /\ r.implied_flow = NULL
           /\ EarlierPeriods(r) # {}
           /\ r.period \notin lastOp.periods

\* the rows of the dataset get_regression_dataset returned
Dataset == IF ret.op = "get_regression_dataset" THEN ret.value.rows ELSE <<>>

DatasetRows == { Dataset[i] : i \in 1..Len(Dataset) }

\* the degree-day weeks that end the day before the date
WeeksEndingDayBefore(date) ==
    { d \in Rows(noaa_cpc_degree_days) : ToOrdinal(d.week_end_date) + 1 = ToOrdinal(date) }

\* C6 (as stated): get_regression_dataset returns no row with a null
\* implied_flow, and the day after each returned row's week_end_date is a
\* stored storage period.
C6_WeekEndPlusOneIsStoredPeriod ==
    \A row \in DatasetRows :
        /\ row.implied_flow # NULL
        /\ \E s \in Rows(eia_storage) :
               ToOrdinal(s.period) = ToOrdinal(row.week_end_date) + 1

\* C6 (amended): get_regression_dataset returns no row with a null
\* implied_flow; each returned row's week_end_date is itself a stored storage
\* period (the column holds s.period), and the day before it is a stored
\* degree-day week-ending date.
C6_WeekEndIsStoredPeriod ==
    \A row \in DatasetRows :
        /\ row.implied_flow # NULL
        /\ \E s \in Rows(eia_storage) : s.period = row.week_end_date
        /\ WeeksEndingDayBefore(row.week_end_date) # {}

\* C6 witness: a dataset with a row, returned while a joined storage period
\* with a null flow is stored.
C6_Witness ==
    /\ Len(Dataset) >= 1
    /\ \E s \in Rows(eia_storage) :
           s.implied_flow = NULL /\ WeeksEndingDayBefore(s.period) # {}

\* the storage rows the dataset may return: non-null flow and a degree-day
\* week ending the day before
Candidates ==
    { s \in Rows(eia_storage) :
        s.implied_flow # NULL /\ WeeksEndingDayBefore(s.period) # {} }

\* C7: each returned row is a stored storage observation paired with the one
\* degree-day week that ends the day before its period, and carries that
\* week's HDD and CDD; a storage period with no such week is omitted; when the
\* limit allows, every storage period with a flow and such a week is returned.
C7_JoinOnWeekEndPlusOneDay ==
    ret.op = "get_regression_dataset" =>
        /\ \A row \in DatasetRows :
               /\ \E s \in Rows(eia_storage) :
                      /\ s.period = row.week_end_date
                      /\ s.storage_bcf = row.storage_bcf
                      /\ s.implied_flow = row.implied_flow
               /\ Cardinality(WeeksEndingDayBefore(row.week_end_date)) = 1
               /\ \A d \in WeeksEndingDayBefore(row.week_end_date) :
                      row.HDD = d.hdd /\ row.CDD = d.cdd
        /\ \A s \in Rows(eia_storage) :
               WeeksEndingDayBefore(s.period) = {}
                   => \A row \in DatasetRows : row.week_end_date # s.period
        /\ Cardinality(Candidates) <= ret.lookback_weeks
               => \A s \in Candidates :
                      \E row \in DatasetRows : row.week_end_date = s.period

\* C7 witness: a row is returned while another storage period with a flow is
\* left out for want of a degree-day week, two weeks being stored.
C7_Witness ==
    /\ Len(Dataset) >= 1
    /\ Cardinality(Rows(noaa_cpc_degree_days)) >= 2
    /\ \E s \in Rows(eia_storage) :
           s.implied_flow # NULL /\ WeeksEndingDayBefore(s.period) = {}

\* C8: get_regression_dataset(n) returns min(n, number of joined rows with a
\* flow) rows, ordered oldest to newest; every joined row with a flow that is
\* left out is older than every returned row.
C8_MostRecentOldestFirst ==
    ret.op = "get_regression_dataset" =>
        /\ Len(Dataset) <= ret.lookback_weeks
        /\ Len(Dataset) = IF Cardinality(Candidates) < ret.lookback_weeks
                          THEN Cardinality(Candidates) ELSE ret.lookback_weeks
        /\ \A i \in 1..Len(Dataset) - 1 :
               Before(Dataset[i].week_end_date, Dataset[i + 1].week_end_date)
        /\ \A row \in DatasetRows :
               \E s \in Candidates : s.period = row.week_end_date
        /\ \A s \in Candidates :
               (\A row \in DatasetRows : row.week_end_date # s.period)
                   => \A row \in DatasetRows : Before(s.period, row.week_end_date)

\* C8 witness: two joined rows with a flow are stored and a lookback of one
\* returned one row.
C8_Witness ==
    /\ ret.op = "get_regression_dataset"
    /\ ret.lookback_weeks = 1
    /\ Cardinality(Candidates) = 2
    /\ Len(Dataset) = 1

\* C8 second witness: a lookback of two returned both rows.
C8_WitnessBoth ==
    /\ ret.op = "get_regression_dataset"
    /\ ret.lookback_weeks = 2
    /\ Len(Dataset) = 2

-----------------------------------------------------------------------------
(* The backfill passes.                                                     *)

\* the (model, cycle) pairs a pass has tried to fetch
Attempted == { <<pass.log[i].model, pass.log[i].cycle>> : i \in 1..Len(pass.log) }

\* the cycles a pass expects for one model
ExpectedOf(model) == { e \in pass.expected : e[1] = model }

\* minutes between the last cycle boundary of a model and the instant its
\* delay before now
MinutesPastBoundary(model, now) ==
    LET available == MinusHours(now, ConfigOrGfs(model).delay_hours)
    IN (available.hour % ConfigOrGfs(model).cycle_hours) * 60 + available.minute

\* a finished pass on an empty store that covered a model with a 6-hour
\* interval and a 4-hour delay
GfsPassDone(kind) ==
    /\ pass.pc = "done" /\ pass.kind = kind /\ pass.emptyStart
    /\ \E i \in 1..Len(pass.models) : pass.models[i] = "gfs"

\* C9 as written: with a 6-hour interval, a 4-hour delay, a 48-hour lookback
\* and an empty store, a pass computes exactly 8 expected cycles whatever the
\* instant, and attempts a fetch for each of them.
C9_AlwaysEightCycles ==
    \A kind \in {"run_once", "backfill"} :
        GfsPassDone(kind) =>
            /\ Cardinality(ExpectedOf("gfs")) = 8
            /\ ExpectedOf("gfs") \subseteq Attempted

\* C9: with a 6-hour interval, a 4-hour delay, a 48-hour lookback and an empty
\* store, the backfill of main.py computes exactly 8 expected cycles for every
\* anchor; the scheduler's pass computes 8 when the instant 4 hours before now
\* is at most 2 hours past a 6-hour boundary and 7 otherwise; a fetch is
\* attempted for each expected cycle.
C9_EightOrSevenCycles ==
    /\ GfsPassDone("backfill") =>
           /\ Cardinality(ExpectedOf("gfs")) = 8
           /\ ExpectedOf("gfs") \subseteq Attempted
    /\ GfsPassDone("run_once") =>
           /\ Cardinality(ExpectedOf("gfs")) =
                  IF MinutesPastBoundary("gfs", pass.now) <= 120 THEN 8 ELSE 7
           /\ ExpectedOf("gfs") \subseteq Attempted

C9_Witness ==
    /\ GfsPassDone("run_once")
    /\ MinutesPastBoundary("gfs", pass.now) > 120
    /\ Cardinality(ExpectedOf("gfs")) = 7
    /\ ExpectedOf("gfs") \subseteq Attempted

C9_WitnessEight ==
    /\ GfsPassDone("run_once")
    /\ MinutesPastBoundary("gfs", pass.now) = 120
    /\ Cardinality(ExpectedOf("gfs")) = 8
    /\ ExpectedOf("gfs") \subseteq Attempted

C9_WitnessBackfill ==
    /\ GfsPassDone("backfill")
    /\ pass.now.hour = 3
    /\ Cardinality(ExpectedOf("gfs")) = 8
    /\ ExpectedOf("gfs") \subseteq Attempted

\* C10: an exception raised by a cycle's fetch does not abort the pass: once
\* the pass is over every cycle that was missing, of the same model and of the
\* models that follow, has been attempted, and every failure has been printed.
C10_FailureDoesNotAbortPass ==
    pass.pc = "done" =>
        /\ pass.missing \subseteq Attempted
        /\ \A i \in 1..Len(pass.log) :
               pass.log[i].outcome = "raise" =>
                   <<FailureLine(pass.kind), pass.log[i].model, pass.log[i].cycle>>
                       \in pass.printed

C10_Witness ==
    /\ pass.pc = "done" /\ pass.kind = "run_once"
    /\ \E i \in 1..Len(pass.log) :
           /\ pass.log[i].outcome = "raise"
           /\ \E j \in (i + 1)..Len(pass.log) :
                  /\ pass.log[j].model = pass.log[i].model
                  /\ pass.log[j].outcome = "data"
           /\ \E k \in (i + 1)..Len(pass.log) :
                  pass.log[k].model # pass.log[i].model
    /\ pass.missing \subseteq Attempted

C10_WitnessBackfill ==
    /\ pass.pc = "done" /\ pass.kind = "backfill"
    /\ Len(pass.log) = 8
    /\ pass.log[1].outcome = "raise"
    /\ pass.log[8].outcome = "data"

-----------------------------------------------------------------------------
(* The extractor's completeness rules.                                       *)

\* the number of hours downloaded by the call in progress
Downloaded == Cardinality({ i \in 1..Len(download.outcomes) : download.outcomes[i] })

\* three per-hour downloads in a row failed
ThreeConsecutiveFailures ==
    \E i \in 1..(Len(download.outcomes) - 2) :
        ~download.outcomes[i] /\ ~download.outcomes[i + 1] /\ ~download.outcomes[i + 2]

\* the rows stored for the cycle of the call in progress
FetchedCycleRows ==
    { r \in Rows(forecasts) :
          r.model = download.model /\ <<r.run_date, r.run_hour>> = download.cycle }

\* C11: get_full_forecast returns a non-empty daily series only if at least
\* 75% of the expected forecast hours were downloaded; with fewer it returns
\* the empty series and the caller stores no row of the cycle.
C11_NonEmptyOnlyAtThreeQuarters ==
    download.pc \in {"returned", "handled"} =>
        /\ download.result # EmptyFrame => 4 * Downloaded >= 3 * download.total
        /\ 4 * Downloaded < 3 * download.total =>
               /\ download.result = EmptyFrame
               /\ FetchedCycleRows = {}

\* C12 as written: three consecutive failed downloads discard the whole
\* cycle, whatever was downloaded before them.
C12_AbortDiscardsCycle ==
    download.pc = "handled" /\ ThreeConsecutiveFailures =>
        download.result = EmptyFrame /\ FetchedCycleRows = {}

\* C12: after three consecutive failed downloads no further hour is
\* downloaded; the cycle is discarded (empty series, no row stored) when fewer
\* than int(0.75 * expected hours) hours were downloaded before them, and
\* otherwise the series of the downloaded hours is returned and stored.
C12_AbortBelowMinimumDiscardsCycle ==
    download.pc = "handled" /\ ThreeConsecutiveFailures =>
        /\ \A i \in 1..(Len(download.outcomes) - 2) :
               (~download.outcomes[i] /\ ~download.outcomes[i + 1]
                    /\ ~download.outcomes[i + 2]) => i = Len(download.outcomes) - 2
        /\ IF Downloaded < (3 * download.total) \div 4
           THEN download.result = EmptyFrame /\ FetchedCycleRows = {}
           ELSE /\ download.result # EmptyFrame
                /\ { r.valid_date : r \in FetchedCycleRows } = FrameDates(download.result)

C12_Witness ==
    /\ download.pc = "handled" /\ ThreeConsecutiveFailures
    /\ Downloaded = 5
    /\ download.result = EmptyFrame /\ FetchedCycleRows = {}

C12_WitnessKept ==
    /\ download.pc = "handled" /\ ThreeConsecutiveFailures
    /\ Downloaded >= (3 * download.total) \div 4
    /\ FetchedCycleRows # {}

-----------------------------------------------------------------------------
(* The scheduler's loop.                                                     *)

\* the rows stored for a cycle of a model
CycleRows(model, cycle) ==
    { r \in Rows(forecasts) : r.model = model /\ <<r.run_date, r.run_hour>> = cycle }

\* the cycle is not older than 48 hours at the instant now
InLookback(cycle, now) ==
    HoursOf(InstantOf(cycle[1], cycle[2])) * 60 >= (HoursOf(now) - 48) * 60 + now.minute

\* the attempts of the pass before the current one
PreviousLog == pass.history[Len(pass.history)].log

\* C13: when the provider returns an empty series for a missing cycle, no row
\* is written for it and it is absent from the store after the pass; the next
\* pass attempts it again as long as it is inside the lookback window.
C13_EmptyResultRetriedNextPass ==
    pass.pc = "done" =>
        /\ \A i \in 1..Len(pass.log) :
               pass.log[i].outcome = "empty" =>
                   CycleRows(pass.log[i].model, pass.log[i].cycle) = {}
        /\ pass.history # <<>> =>
               \A i \in 1..Len(PreviousLog) :
                   (PreviousLog[i].outcome = "empty"
                        /\ InLookback(PreviousLog[i].cycle, pass.now)) =>
                       <<PreviousLog[i].model, PreviousLog[i].cycle>> \in Attempted

C13_Witness ==
    /\ pass.pc = "done" /\ pass.history # <<>>
    /\ \E i \in 1..Len(PreviousLog), j \in 1..Len(pass.log) :
           /\ PreviousLog[i].outcome = "empty"
           /\ InLookback(PreviousLog[i].cycle, pass.now)
           /\ pass.log[j].cycle = PreviousLog[i].cycle
           /\ pass.log[j].outcome = "data"
           /\ CycleRows(pass.log[j].model, pass.log[j].cycle) # {}

C13_WitnessOutOfWindow ==
    /\ pass.pc = "done" /\ pass.history # <<>>
    /\ \E i \in 1..Len(PreviousLog) :
           /\ PreviousLog[i].outcome = "empty"
           /\ ~InLookback(PreviousLog[i].cycle, pass.now)
           /\ <<PreviousLog[i].model, PreviousLog[i].cycle>> \notin Attempted

\* C14: a pass fetches a cycle only if the list of stored cycles read at the
\* start of the model's pass does not contain it; a cycle that already has a
\* stored row is neither fetched nor overwritten.
C14_StoredCyclesAreSkipped ==
    [][(pass.pc = "models" /\ pass'.pc = "models"
            /\ Len(pass'.log) = Len(pass.log) + 1) =>
           LET e == pass'.log[Len(pass'.log)]
           IN /\ e.cycle \notin pass.existing
              /\ CycleRows(e.model, e.cycle) = {}
              /\ \A r \in Rows(forecasts) :
                     <<r.model, <<r.run_date, r.run_hour>> >> # <<e.model, e.cycle>>
                         => r \in Rows(forecasts')]_vars

C14_Witness ==
    /\ pass.pc = "done" /\ pass.log # <<>>
    /\ \E e \in pass.expected :
           /\ e[2] \in pass.existing
           /\ e \notin Attempted
           /\ CycleRows(e[1], e[2]) # {}

\* C15: a storage failure during a pass, while listing the stored cycles or
\* while writing a fetched cycle with save_run, is fatal to the pass: it
\* propagates to the caller and is neither swallowed nor retried.
C15_StoreFailureIsFatal ==
    pass.pc # "idle" =>
        /\ (\E i \in 1..Len(pass.log) : pass.log[i].outcome = "store_error") =>
               pass.pc = "crashed"
        /\ pass.pc = "crashed" => pass.todo = <<>>

\* the summary of the pass before the current one
PreviousPass == pass.history[Len(pass.history)]

\* the cycles whose save_run has completed
SavedIds == { id \in DOMAIN lastSaved : lastSaved[id].kind = "df" }

\* C16: if a multi-cycle pass is interrupted at any point, every cycle whose
\* save_run completed is stored with all its rows, every other cycle has no
\* row at all (none is half written), and the next pass attempts exactly the
\* cycles of its window that are still absent.
C16_InterruptLeavesWholeCycles ==
    /\ StoredCycles = { <<id[1], <<id[2], id[3]>> >> : id \in SavedIds }
    /\ \A id \in SavedIds :
           StoredDates(forecasts, id) = FrameDates(lastSaved[id].rows)
    /\ (pass.pc = "done" /\ pass.history # <<>>) =>
           (PreviousPass.interrupted =>
                Attempted = pass.expected \ PreviousPass.stored)

C16_Witness ==
    /\ pass.pc = "done" /\ pass.history # <<>>
    /\ PreviousPass.interrupted
    /\ \E i \in 1..Len(PreviousPass.log) : PreviousPass.log[i].outcome = "data"
    /\ PreviousPass.stored # {}
    /\ pass.expected \cap PreviousPass.stored # {}
    /\ Attempted # {}
    /\ \E e \in Attempted : e \in PreviousPass.expected

-----------------------------------------------------------------------------
(* Concurrent writers.                                                       *)

\* the store after a single save_run of the provider's series for a cycle
SingleCall(id) == SaveRows(EmptyTable, id[1], id[2], id[3], ProviderSeries, 1)

\* the part of the store that belongs to a cycle
CyclePart(id) ==
    Where(forecasts, { r \in Rows(forecasts) : <<r.model, r.run_date, r.run_hour>> = id })

\* C17: repeated or concurrent save_run calls that write the same series to
\* the same cycle leave, under every interleaving of their row writes, exactly
\* the rows of one call: no key is duplicated and get_run returns the series
\* of a single call.
C17_SameSeriesWritersLeaveOneCall ==
    \A id \in WriterIds :
        IF id \in SavedIds
        THEN /\ CyclePart(id) = SingleCall(id)
             /\ \A r \in Rows(forecasts) : CopiesIn(r, forecasts) = 1
             /\ get_run_value(forecasts, id[1], id[2], id[3]) = DataFrame(ProviderSeries)
        ELSE CyclePart(id) = EmptyTable

C17_Witness ==
    \E id \in WriterIds :
        /\ id \in SavedIds
        /\ writers["scheduler"].pc = "open" /\ writers["main"].pc = "open"
        /\ writers["scheduler"].id = id /\ writers["main"].id = id
        /\ writers["main"].i = 1 /\ writers["scheduler"].i = 0
        /\ CyclePart(id) = SingleCall(id)

-----------------------------------------------------------------------------
(* Reads of the forecast store.                                              *)

\* the stored rows of the cycle a get_run asked for, as frame rows
AskedCycleRows ==
    { [valid_date |-> r.valid_date, HDD |-> r.hdd, CDD |-> r.cdd] :
          r \in { q \in Rows(forecasts) :
                      <<q.model, q.run_date, q.run_hour>> = ret.id } }

\* C18: get_run returns None exactly when no stored row matches (model,
\* run_date, run_hour); otherwise it returns every stored row of that cycle
\* and no row of another cycle or model, ordered by valid_date strictly
\* ascending.
C18_GetRunNoneIffNoRow ==
    ret.op = "get_run" =>
        /\ ret.value = NoneValue <=> AskedCycleRows = {}
        /\ ret.value # NoneValue =>
               /\ ret.value.kind = "df"
               /\ { ret.value.rows[i] : i \in 1..Len(ret.value.rows) } = AskedCycleRows
               /\ Len(ret.value.rows) = Cardinality(AskedCycleRows)
               /\ StrictlyAscending(ret.value.rows)

C18_Witness ==
    /\ ret.op = "get_run"
    /\ ret.value # NoneValue
    /\ Len(ret.value.rows) = 2
    /\ \E r \in Rows(forecasts) : <<r.model, r.run_date, r.run_hour>> # ret.id

C18_WitnessNone ==
    /\ ret.op = "get_run"
    /\ ret.value = NoneValue
    /\ forecasts # EmptyTable

\* the (run_date, run_hour) stored for the model a get_recent_runs asked for
AskedModelCycles ==
    { <<r.run_date, r.run_hour>> : r \in { q \in Rows(forecasts) : q.model = ret.model } }

\* the (run_date, run_hour) of the runs a get_recent_runs returned
ReturnedCycles ==
    { <<ret.value[i].run_date, ret.value[i].run_hour>> : i \in 1..Len(ret.value) }

\* C19: get_recent_runs(model, n) returns at most n runs, all of the model:
\* the n most recent distinct (run_date, run_hour) stored for it, strictly
\* descending by (run_date, run_hour), each with its full series.
C19_RecentRunsMostRecentFirst ==
    ret.op = "get_recent_runs" =>
        /\ Len(ret.value) = IF Cardinality(AskedModelCycles) < ret.n
                            THEN Cardinality(AskedModelCycles) ELSE ret.n
        /\ ReturnedCycles \subseteq AskedModelCycles
        /\ \A i \in 1..Len(ret.value) - 1 :
               CycleLess(<<ret.value[i + 1].run_date, ret.value[i + 1].run_hour>>,
                         <<ret.value[i].run_date, ret.value[i].run_hour>>)
        /\ \A c \in AskedModelCycles \ ReturnedCycles :
               \A d \in ReturnedCycles : CycleLess(c, d)
        /\ \A i \in 1..Len(ret.value) :
               LET stored == { r \in Rows(forecasts) :
                                   /\ r.model = ret.model
                                   /\ r.run_date = ret.value[i].run_date
                                   /\ r.run_hour = ret.value[i].run_hour }
                   rows == ret.value[i].df.rows
               IN /\ { rows[k] : k \in 1..Len(rows) } =
                         { [valid_date |-> r.valid_date, HDD |-> r.hdd, CDD |-> r.cdd] :
                               r \in stored }
                  /\ Len(rows) = Cardinality(stored)

C19_Witness ==
    /\ ret.op = "get_recent_runs" /\ ret.n = 2
    /\ Cardinality(AskedModelCycles) = 3
    /\ Len(ret.value) = 2
    /\ ret.value[1].run_date # ret.value[2].run_date
    /\ Len(ret.value[1].df.rows) = 2
    /\ \E r \in Rows(forecasts) : r.model # ret.model

-----------------------------------------------------------------------------
(* The cycle clock.                                                          *)

\* minutes from the start of the calendar to an instant
MinutesOf(dt) == (ToOrdinal(dt.date) * 24 + dt.hour) * 60 + dt.minute

\* C20: for every instant and every configured model, _latest_cycle returns
\* the cycle boundary c whose hour is a multiple of the model's interval with
\* c <= now - delay and now - delay - c < interval, dated the previous
\* calendar day when now - delay falls before midnight of the current day.
C20_LatestCycleIsFloor ==
    ret.op = "_latest_cycle" =>
        LET interval == MODEL_CONFIG[ret.model].cycle_hours
            delay == MODEL_CONFIG[ret.model].delay_hours
            c == [date |-> ret.value[1], hour |-> ret.value[2], minute |-> 0]
            available == MinutesOf(ret.now) - delay * 60
        IN /\ ret.value[2] \in 0..23 /\ ret.value[2] % interval = 0
           /\ MinutesOf(c) <= available
           /\ available - MinutesOf(c) < interval * 60
           /\ ToOrdinal(ret.value[1]) =
                  IF ret.now.hour < delay THEN ToOrdinal(ret.now.date) - 1
                  ELSE ToOrdinal(ret.now.date)

C20_Witness ==
    /\ ret.op = "_latest_cycle"
    /\ ret.model = "ecmwf-ens"
    /\ ret.now = [date |-> <<2024, 1, 1>>, hour |-> 6, minute |-> 30]
    /\ ret.value = << <<2023, 12, 31>>, 12>>

C20_WitnessLeapDay ==
    /\ ret.op = "_latest_cycle"
    /\ ret.model = "gfs"
    /\ ret.now = [date |-> <<2024, 3, 1>>, hour |-> 3, minute |-> 30]
    /\ ret.value = << <<2024, 2, 29>>, 18>>

\* hours from the start of the calendar to a cycle (date, hour)
AbsHours(cycle) == ToOrdinal(cycle[1]) * 24 + cycle[2]

\* a (date, hour) of the calendar
IsCalendarCycle(cycle) ==
    /\ cycle[1][2] \in 1..12
    /\ cycle[1][3] \in 1..DaysInMonth(cycle[1][1], cycle[1][2])
    /\ cycle[2] \in 0..23

\* the number of boundaries first, first - interval, ... not older than 48
\* hours at the instant now
BoundariesInLookback(first, interval, now) ==
    Cardinality({ k \in 0..48 :
                      (first - k * interval) * 60 >=
                          (ToOrdinal(now.date) * 24 + now.hour - 48) * 60 + now.minute })

\* C21: _recent_cycles returns, most recent first, exactly the boundaries
\* latest - k * interval (k = 0, 1, 2, ...) not older than now - lookback, each
\* as the correct calendar (date, hour) across day, month and year rollovers,
\* none duplicated or skipped; _backfill looks at the boundaries before its
\* anchor in the same way.
C21_RecentCyclesAreTheBoundaries ==
    ret.op \in {"_recent_cycles", "_backfill"} =>
        LET interval == ConfigOrGfs(ret.model).cycle_hours
            delay == ConfigOrGfs(ret.model).delay_hours
            nowHours == ToOrdinal(ret.now.date) * 24 + ret.now.hour
            first == IF ret.op = "_recent_cycles"
                     THEN ((nowHours - delay) \div interval) * interval
                     ELSE nowHours - interval
        IN /\ Len(ret.value) = BoundariesInLookback(first, interval, ret.now)
           /\ \A k \in 1..Len(ret.value) :
                  /\ IsCalendarCycle(ret.value[k])
                  /\ AbsHours(ret.value[k]) = first - (k - 1) * interval

C21_Witness ==
    /\ ret.op = "_recent_cycles" /\ ret.model = "gfs"
    /\ ret.now = [date |-> <<2024, 3, 1>>, hour |-> 3, minute |-> 30]
    /\ ret.value = << << <<2024, 2, 29>>, 18>>, << <<2024, 2, 29>>, 12>>,
                      << <<2024, 2, 29>>, 6>>, << <<2024, 2, 29>>, 0>>,
                      << <<2024, 2, 28>>, 18>>, << <<2024, 2, 28>>, 12>>,
                      << <<2024, 2, 28>>, 6>> >>

C21_WitnessNewYear ==
    /\ ret.op = "_recent_cycles" /\ ret.model = "ecmwf"
    /\ ret.now = [date |-> <<2024, 1, 1>>, hour |-> 6, minute |-> 0]
    /\ ret.value = << << <<2024, 1, 1>>, 0>>, << <<2023, 12, 31>>, 12>>,
                      << <<2023, 12, 31>>, 0>>, << <<2023, 12, 30>>, 12>> >>

C21_WitnessBackfill ==
    /\ ret.op = "_backfill" /\ ret.model = "gfs"
    /\ ret.now.hour = 3
    /\ Len(ret.value) = 8
    /\ ret.value[8] = << <<2024, 2, 28>>, 3>>

\* C22: fit_current raises the insufficient-data error whenever fewer than 10
\* rows remain after the rows with a missing HDD, CDD or implied_flow are
\* dropped (5 rows, say), and on exactly 10 clean rows it returns n_obs = 10.
C22_FitCurrentNeedsTenRows ==
    ret.op = "fit_current" =>
        /\ Len(dropna(frame)) < 10 => ret.value.kind = "ValueError"
        /\ Len(frame) = 10 /\ Len(dropna(frame)) = 10 =>
               ret.value.kind = "coefficients" /\ ret.value.n_obs = 10

C22_Witness ==
    /\ ret.op = "fit_current"
    /\ Len(frame) = 10 /\ Len(dropna(frame)) = 10
    /\ ret.value.kind = "coefficients" /\ ret.value.n_obs = 10

C22_WitnessDropped ==
    /\ ret.op = "fit_current"
    /\ Len(frame) = 11 /\ Len(dropna(frame)) = 9
    /\ ret.value.kind = "ValueError"

\* the smaller of two numbers
Smaller(a, b) == IF a < b THEN a ELSE b

RollingRows == dropna(sort_values(frame))

\* C23: fit_rolling on N clean rows fits every window of 156 consecutive rows,
\* sliding one row at a time from the oldest to the newest, and tags each
\* result with the last period of its window: the final result is tagged with
\* the newest period of the dataset, and exactly 156 rows yield one result.
C23_RollingCoversEveryWindow ==
    ret.op = "fit_rolling" /\ ret.failing = {} /\ Len(RollingRows) >= 156 =>
        /\ Len(ret.value) = Len(RollingRows) - 155
        /\ \A k \in 1..Len(ret.value) :
               ret.value[k].week_end_date = RollingRows[155 + k].week_end_date
        /\ ret.value[Len(ret.value)].week_end_date =
               RollingRows[Len(RollingRows)].week_end_date

\* the positions k of the results that carry the period of window i
ResultsOf(i) ==
    { k \in 1..Len(ret.value) :
          ret.value[k].week_end_date = RollingRows[i].week_end_date }

\* C30: in fit_rolling a window whose fit fails is skipped and the later
\* windows are still fitted: the result has one entry per window that fitted,
\* oldest to newest, and fit_rolling does not abort or raise.
C30_FailingWindowIsSkipped ==
    ret.op = "fit_rolling" =>
        /\ \A i \in RollingWindows(RollingRows) :
               Cardinality(ResultsOf(i)) = IF i \in ret.failing THEN 0 ELSE 1
        /\ Len(ret.value) = Cardinality(RollingWindows(RollingRows) \ ret.failing)
        /\ \A k \in 1..(Len(ret.value) - 1) :
               ret.value[k].week_end_date < ret.value[k + 1].week_end_date
        /\ \A k \in 1..Len(ret.value) :
               ret.value[k].kind = "coefficients" /\ ret.value[k].n_obs = 156

C30_Witness ==
    /\ ret.op = "fit_rolling"
    /\ Len(RollingRows) = 160
    /\ ret.failing = {157}
    /\ Len(ret.value) = 3
    /\ ret.value[1].week_end_date = 156
    /\ ret.value[2].week_end_date = 158
    /\ ret.value[3].week_end_date = 159

\* the days_in_week of the buckets, added up
DaysCovered(weekly) ==
    Dot([k \in 1..Len(weekly) |-> weekly[k].days_in_week],
        [k \in 1..Len(weekly) |-> 1])

\* the earliest day of the daily frame
FirstDay ==
    CHOOSE d \in { frame[i].valid_date : i \in 1..Len(frame) } :
        \A i \in 1..Len(frame) : ~DateLess(frame[i].valid_date, d)

\* the Fridays of the daily frame after its first day: the week boundaries
\* the series spans
BoundariesSpanned ==
    Cardinality({ i \in 1..Len(frame) :
                      /\ (ToOrdinal(frame[i].valid_date) + 6) % 7 = 4
                      /\ frame[i].valid_date # FirstDay })

\* C24 as stated: for every daily series of 10 consecutive calendar days
\* spanning a fiscal-week boundary, _aggregate_to_gas_weeks returns exactly 2
\* buckets whose days_in_week sum to 10.
C24_TenDaysGiveTwoBuckets ==
    ret.op = "_aggregate_to_gas_weeks" /\ Len(frame) = 10 /\ BoundariesSpanned >= 1 =>
        Len(ret.value) = 2 /\ DaysCovered(ret.value) = 10

\* C24, amended: a daily series of 10 consecutive calendar days gives buckets
\* whose days_in_week sum to 10: exactly 2 buckets when it spans one
\* fiscal-week boundary (first day Friday to Tuesday), 3 buckets when it
\* spans two (first day Wednesday or Thursday).
C24_TenDaysGiveTwoOrThreeBuckets ==
    ret.op = "_aggregate_to_gas_weeks" /\ Len(frame) = 10 =>
        /\ DaysCovered(ret.value) = 10
        /\ BoundariesSpanned \in {1, 2}
        /\ Len(ret.value) = BoundariesSpanned + 1
        /\ BoundariesSpanned = 2 <=> (ToOrdinal(FirstDay) + 6) % 7 \in {2, 3}

C24_Witness ==
    /\ ret.op = "_aggregate_to_gas_weeks" /\ Len(frame) = 10
    /\ FirstDay = <<2023, 12, 26>>
    /\ Len(ret.value) = 2
    /\ ret.value[1].week_end_date = <<2023, 12, 28>> /\ ret.value[1].days_in_week = 3
    /\ ret.value[2].week_end_date = <<2024, 1, 4>> /\ ret.value[2].days_in_week = 7

C24_WitnessThree ==
    /\ ret.op = "_aggregate_to_gas_weeks" /\ Len(frame) = 10
    /\ FirstDay = <<2023, 12, 28>>
    /\ Len(ret.value) = 3
    /\ ret.value[1].days_in_week = 1 /\ ret.value[2].days_in_week = 7
    /\ ret.value[3].days_in_week = 2

\* the days of the daily frame in the Friday-Thursday week ending on week_end
DaysOfWeek(week_end) ==
    { i \in 1..Len(frame) :
          /\ ToOrdinal(week_end) - 6 <= ToOrdinal(frame[i].valid_date)
          /\ ToOrdinal(frame[i].valid_date) <= ToOrdinal(week_end) }

\* the degree days of a column over the days of the week ending on week_end
WeekTotal(name, week_end) ==
    Dot([i \in 1..Len(frame) |-> frame[i][name]],
        [i \in 1..Len(frame) |-> IF i \in DaysOfWeek(week_end) THEN 1 ELSE 0])

\* the flow of row k of a projection, before rounding
FlowOfWeek(k) ==
    ret.coefficients.intercept
        + ret.coefficients.beta_hdd * WeekTotal("HDD", ret.value[k].week_end_date)
        + ret.coefficients.beta_cdd * WeekTotal("CDD", ret.value[k].week_end_date)

\* the flows of rows 1 to k, added up
FlowsUpTo(k) == Dot([j \in 1..k |-> FlowOfWeek(j)], [j \in 1..k |-> 1])

\* C25: predict_from_forecast emits one row per fiscal week, in chronological
\* order; the storage of week k is latest_storage_bcf plus the sum of the
\* flows of weeks 1..k, each flow being intercept + beta_hdd * weekHDD +
\* beta_cdd * weekCDD, taken before the rounding of the output.
C25_ProjectionIsRunningSum ==
    ret.op = "predict_from_forecast" =>
        /\ \A i \in 1..Len(frame) :
               Cardinality({ k \in 1..Len(ret.value) :
                                 i \in DaysOfWeek(ret.value[k].week_end_date) }) = 1
        /\ \A k \in 1..Len(ret.value) :
               /\ (ToOrdinal(ret.value[k].week_end_date) + 6) % 7 = 3
               /\ DaysOfWeek(ret.value[k].week_end_date) # {}
               /\ ret.value[k].implied_flow_bcf = Round1(FlowOfWeek(k))
               /\ ret.value[k].forecast_storage_bcf =
                      Round1(ret.latest_storage_bcf + FlowsUpTo(k))
        /\ \A k \in 1..(Len(ret.value) - 1) :
               DateLess(ret.value[k].week_end_date, ret.value[k + 1].week_end_date)

C25_Witness ==
    /\ ret.op = "predict_from_forecast"
    /\ Len(ret.value) = 3
    /\ ret.value[3].forecast_storage_bcf #
           Round1(ret.latest_storage_bcf) + ret.value[1].implied_flow_bcf
               + ret.value[2].implied_flow_bcf + ret.value[3].implied_flow_bcf
    /\ ret.value[3].forecast_storage_bcf =
           Round1(ret.latest_storage_bcf + FlowOfWeek(1) + FlowOfWeek(2) + FlowOfWeek(3))

\* the distinct implied flows of the window
FlowValues == { frame[i].implied_flow[1] : i \in 1..Len(frame) }

C26_WitnessBetween ==
    /\ ret.op = "_fit_ols"
    /\ Cardinality(FlowValues) > 1
    /\ 0 < ret.value.r_squared[1]
    /\ ret.value.r_squared[1] < ret.value.r_squared[2]

C26_WitnessPerfectFit ==
    /\ ret.op = "_fit_ols"
    /\ Cardinality(FlowValues) = 2
    /\ ret.value.r_squared[1] = ret.value.r_squared[2]

\* the rows in the store at the moment a save_storage step writes period p:
\* the rows of the batch written so far, and the rows stored before the call
\* that the batch has not replaced yet
StoreWhenWritten(p) ==
    { q \in Rows(eia_storage') : q.period \in lastOp'.periods /\ DateLess(q.period, p) }
    \cup { q \in Rows(eia_storage) :
               q.period \notin { b \in lastOp'.periods : DateLess(b, p) } }

\* the flow a written row must carry: its level minus the level of the
\* greatest period strictly earlier in the store when it is written
FlowWhenWritten(r) ==
    LET earlier == { q \in StoreWhenWritten(r.period) : DateLess(q.period, r.period) }
    IN IF earlier = {} THEN NULL
       ELSE Some(r.storage_bcf
                 - (CHOOSE q \in earlier :
                        \A o \in earlier : ~DateLess(q.period, o.period)).storage_bcf)

\* C27: save_storage gives every row it writes implied_flow = its level minus
\* the level of the greatest period strictly earlier in the store at the
\* moment the row is written (earlier rows of the same batch included), or
\* null when there is none, whatever the order of the rows in the batch; the
\* rows it does not write stay as they are.
C27_SaveStorageUsesNearestEarlierPeriod ==
    [][lastOp'.op = "save_storage" =>
          /\ \A r \in Rows(eia_storage') :
                 IF r.period \in lastOp'.periods
                 THEN r.implied_flow = FlowWhenWritten(r)
                 ELSE r \in Rows(eia_storage)
          /\ { r.period : r \in Rows(eia_storage') } =
                 { r.period : r \in Rows(eia_storage) } \cup lastOp'.periods
          /\ CountRows(eia_storage') = Cardinality(Rows(eia_storage'))]_vars

\* C27 witness: a batch of two periods was saved into a store that held a
\* third, earlier one with another level: the later row of the batch carries
\* the difference to the earlier row of the batch, and that one the difference
\* to the row stored before.
C27_Witness ==
    /\ lastOp.op = "save_storage"
    /\ lastOp.periods = { <<2024, 3, 1>>, <<2024, 3, 8>> }
    /\ Rows(eia_storage) =
           { [period |-> <<2024, 2, 23>>, storage_bcf |-> 100, implied_flow |-> NULL],
             [period |-> <<2024, 3, 1>>, storage_bcf |-> 95, implied_flow |-> Some(-5)],
             [period |-> <<2024, 3, 8>>, storage_bcf |-> 100, implied_flow |-> Some(5)] }

\* C28: recompute_implied_flows is idempotent: run a second time right after
\* itself it leaves every row of eia_storage as the first run left it.
C28_RecomputeIsIdempotent ==
    [][lastOp.op = "recompute_implied_flows" /\ lastOp'.op = "recompute_implied_flows"
           => eia_storage' = eia_storage]_vars

\* C28 witness: a second recompute in a row has run on a store of three
\* periods with non-null flows, and changed no row.
C28_Witness ==
    /\ lastOp.op = "recompute_implied_flows"
    /\ lastOp.repeated /\ lastOp.changed = 0
    /\ Cardinality(Rows(eia_storage)) = 3
    /\ \E r \in Rows(eia_storage) : r.implied_flow # NULL /\ r.implied_flow # Some(0)

\* the first Thursday on or after a day, by its day number
FirstThursdayOnOrAfter(date) ==
    CHOOSE d \in { PlusDays(date, k) : k \in 0..6 } : (ToOrdinal(d) + 6) % 7 = 3

\* the days of the daily frame whose first Thursday on or after is week_end
DaysAssignedTo(week_end) ==
    { i \in 1..Len(frame) : FirstThursdayOnOrAfter(frame[i].valid_date) = week_end }

\* a column of the daily frame added up over a set of its days
TotalOver(name, days) ==
    Dot([i \in 1..Len(frame) |-> frame[i][name]],
        [i \in 1..Len(frame) |-> IF i \in days THEN 1 ELSE 0])

\* C31: _aggregate_to_gas_weeks assigns every day to the bucket ending on the
\* first Thursday on or after it (a Friday starts a new week and maps to the
\* Thursday six days later); each bucket's HDD and CDD are the sums over the
\* days assigned to it, buckets are kept even when partial, and the
\* days_in_week of all buckets sum to the number of input days.
C31_DaysGoToFirstThursdayOnOrAfter ==
    ret.op = "_aggregate_to_gas_weeks" =>
        /\ \A i \in 1..Len(frame) :
               /\ Cardinality({ k \in 1..Len(ret.value) :
                                    ret.value[k].week_end_date =
                                        FirstThursdayOnOrAfter(frame[i].valid_date) }) = 1
               /\ (ToOrdinal(frame[i].valid_date) + 6) % 7 = 4 =>
                      ToOrdinal(FirstThursdayOnOrAfter(frame[i].valid_date)) =
                          ToOrdinal(frame[i].valid_date) + 6
        /\ \A k \in 1..Len(ret.value) :
               LET days == DaysAssignedTo(ret.value[k].week_end_date)
               IN /\ days # {}
                  /\ ret.value[k].days_in_week = Cardinality(days)
                  /\ ret.value[k].HDD = TotalOver("HDD", days)
                  /\ ret.value[k].CDD = TotalOver("CDD", days)
        /\ DaysCovered(ret.value) = Len(frame)

\* C31 witness: nine days from Saturday 2023-12-30: six of them in the week
\* ending 2024-01-04, and Friday to Sunday in a partial week ending 2024-01-11.
C31_Witness ==
    /\ ret.op = "_aggregate_to_gas_weeks"
    /\ Len(frame) = 9 /\ FirstDay = <<2023, 12, 30>>
    /\ Len(ret.value) = 2
    /\ ret.value[1].week_end_date = <<2024, 1, 4>> /\ ret.value[1].days_in_week = 6
    /\ ret.value[2].week_end_date = <<2024, 1, 11>> /\ ret.value[2].days_in_week = 3
    /\ ret.value[1].HDD > 3

\* the fetches of a cycle of a model logged in the pass
FetchesOf(model, cycle) ==
    { i \in 1..Len(pass.log) :
          pass.log[i].model = model /\ pass.log[i].cycle = cycle }

\* the times a model has come up in the model list of the pass so far
TurnsOf(model) ==
    Cardinality({ j \in 1..pass.mi : pass.models[j] = model })

\* C32 as stated: within a single pass each missing cycle is fetched at most
\* once, whether the fetch succeeds, returns an empty series or raises.
C32_EachCycleFetchedAtMostOnce ==
    pass.pc # "idle" =>
        \A i, j \in 1..Len(pass.log) :
            pass.log[i].model = pass.log[j].model
                /\ pass.log[i].cycle = pass.log[j].cycle => i = j

\* C32, amended: within a single pass each missing cycle is fetched at most
\* once for each time its model is named in the model list of the pass,
\* whether the fetch succeeds, returns an empty series or raises; _backfill
\* and a run_once whose list names every model once fetch it at most once,
\* and a cycle whose fetch succeeded is not fetched again in the pass.
C32_EachCycleFetchedOncePerTurn ==
    pass.pc # "idle" =>
        \A i \in 1..Len(pass.log) :
            LET fetches == FetchesOf(pass.log[i].model, pass.log[i].cycle)
            IN /\ Cardinality(fetches) <= TurnsOf(pass.log[i].model)
               /\ <<pass.log[i].model, pass.log[i].cycle>> \in pass.missing
               /\ pass.log[i].outcome = "data" => \A j \in fetches : j <= i

\* C32 witness: a finished pass over two different models in which a fetch
\* raised, one came back empty and one succeeded, no cycle fetched twice.
C32_Witness ==
    /\ pass.pc = "done" /\ pass.kind = "run_once"
    /\ pass.models = <<"ecmwf", "gfs">>
    /\ { pass.log[i].outcome : i \in 1..Len(pass.log) } = {"data", "empty", "raise"}
    /\ \A i \in 1..Len(pass.log) :
           Cardinality(FetchesOf(pass.log[i].model, pass.log[i].cycle)) = 1

\* the passes of the scheduler so far, the current one last
PassesSoFar == Append(pass.history, PassSummary)

\* the (model, cycle) pairs pass k fetched
FetchedIn(k) ==
    { <<PassesSoFar[k].log[i].model, PassesSoFar[k].log[i].cycle>> :
          i \in 1..Len(PassesSoFar[k].log) }

\* C33: under periodic re-invocation of run_once by the scheduler loop, if the
\* provider returns a non-empty series for a missing cycle on some pass while
\* the cycle is inside the 48-hour lookback window, the cycle is stored by
\* that pass and is never fetched again by a later pass; a cycle that has
\* left the window while still missing is never fetched afterwards.
C33_FetchedOnceStoredForGood ==
    pass.pc # "idle" =>
        \A k \in 1..Len(PassesSoFar) :
            /\ \A i \in 1..Len(PassesSoFar[k].log) :
                   LET e == PassesSoFar[k].log[i]
                   IN /\ InLookback(e.cycle, PassesSoFar[k].now)
                      /\ e.outcome = "data" =>
                             /\ <<e.model, e.cycle>> \in PassesSoFar[k].stored
                             /\ \A later \in (k + 1)..Len(PassesSoFar) :
                                    /\ <<e.model, e.cycle>> \notin FetchedIn(later)
                                    /\ <<e.model, e.cycle>> \in PassesSoFar[later].stored
            /\ \A earlier \in 1..(k - 1) :
                   \A c \in FetchedIn(earlier) :
                       ~InLookback(c[2], PassesSoFar[k].now) => c \notin FetchedIn(k)

\* C33 witness: the second pass is over; the first pass stored a cycle that is
\* still in the window and was not fetched again, and found another cycle
\* empty that has left the window since and was not fetched again either,
\* while the second pass fetched a cycle of its own.
C33_Witness ==
    /\ pass.pc = "done" /\ Len(pass.history) = 1 /\ pass.log # <<>>
    /\ \E i, j \in 1..Len(PreviousLog) :
           /\ PreviousLog[i].outcome = "data"
           /\ InLookback(PreviousLog[i].cycle, pass.now)
           /\ <<PreviousLog[i].model, PreviousLog[i].cycle>> \notin Attempted
           /\ CycleRows(PreviousLog[i].model, PreviousLog[i].cycle) # {}
           /\ PreviousLog[j].outcome = "empty"
           /\ ~InLookback(PreviousLog[j].cycle, pass.now)
           /\ <<PreviousLog[j].model, PreviousLog[j].cycle>> \notin Attempted
           /\ CycleRows(PreviousLog[j].model, PreviousLog[j].cycle) = {}

\* the failed downloads at the end of the outcomes so far
TrailingFailures ==
    Cardinality({ n \in 1..Len(download.outcomes) :
                      \A i \in (Len(download.outcomes) - n + 1)..Len(download.outcomes) :
                          ~download.outcomes[i] })

\* C34: in get_full_forecast the consecutive-failure counter is reset to 0 by
\* every successful hour download and incremented by every failed one; the
\* download loop aborts exactly when the counter reaches 3, and no forecast
\* hour after the abort is requested.
C34_AbortExactlyAtThreeInARow ==
    download.pc # "idle" =>
        /\ download.consecutive_failures = TrailingFailures
        /\ download.aborted <=> download.consecutive_failures = 3
        /\ Len(download.outcomes) = download.i
        /\ \A i \in 1..(Len(download.outcomes) - 3) :
               download.outcomes[i] \/ download.outcomes[i + 1] \/ download.outcomes[i + 2]

\* C34 witness: two failures, a success that reset the counter, then three
\* failures in a row: the loop aborted with hours left.
C34_Witness ==
    /\ download.pc = "returned" /\ download.aborted
    /\ download.outcomes = <<FALSE, FALSE, TRUE, FALSE, FALSE, FALSE>>
    /\ download.consecutive_failures = 3
    /\ download.i < download.total

\* the periods of eia_storage with the level stored for each
StorageLevelsOf(table) == { <<r.period, r.storage_bcf>> : r \in Rows(table) }

\* C35: recompute_implied_flows changes only the implied_flow column: the
\* stored periods and every period's storage level are the same before and
\* after it, and the forecast and degree-day tables are untouched.
C35_RecomputeChangesOnlyFlows ==
    [][RecomputeImpliedFlows =>
           /\ StorageLevelsOf(eia_storage') = StorageLevelsOf(eia_storage)
           /\ BagCardinality(eia_storage') = BagCardinality(eia_storage)
           /\ forecasts' = forecasts
           /\ noaa_cpc_degree_days' = noaa_cpc_degree_days]_vars

\* C35 witness: a recompute changed the flow of a stored period, with rows in
\* the forecast table and in the degree-day table.
C35_Witness ==
    /\ lastOp.op = "recompute_implied_flows" /\ lastOp.changed > 0
    /\ Cardinality(Rows(eia_storage)) = 2
    /\ forecasts # EmptyTable /\ noaa_cpc_degree_days # EmptyTable

\* the keys of the three tables
ForecastKeys(table) == { ForecastKey(r) : r \in Rows(table) }
StoredPeriods(table) == { r.period : r \in Rows(table) }
StoredWeeks(table) == { r.week_end_date : r \in Rows(table) }

\* the operations that return what is stored
ReadOps == { "get_run", "get_recent_runs", "get_regression_dataset", "get_degree_days" }

\* C36: no operation of the caches deletes a key: across any sequence of
\* save_run, save_storage, save_degree_days, recompute_implied_flows and reads,
\* the stored forecast keys (model, run_date, run_hour, valid_date), storage
\* periods and degree-day week-ending dates never shrink, and a read changes
\* no table.
C36_KeysNeverShrink ==
    [][/\ ForecastKeys(forecasts) \subseteq ForecastKeys(forecasts')
       /\ StoredPeriods(eia_storage) \subseteq StoredPeriods(eia_storage')
       /\ StoredWeeks(noaa_cpc_degree_days) \subseteq StoredWeeks(noaa_cpc_degree_days')
       /\ ret'.op \in ReadOps =>
              /\ forecasts' = forecasts /\ eia_storage' = eia_storage
              /\ noaa_cpc_degree_days' = noaa_cpc_degree_days]_vars

\* C36 witness: a run of two days was saved again with its first day only,
\* and both keys are stored; two storage periods and a degree-day week are
\* stored, and the table was then read.
C36_Witness ==
    /\ { <<r.valid_date, r.hdd>> : r \in Rows(forecasts) }
           = { << <<2024, 1, 5>>, 30 >>, << <<2024, 1, 6>>, 0 >> }
    /\ Cardinality(StoredPeriods(eia_storage)) = 2
    /\ noaa_cpc_degree_days # EmptyTable
    /\ ret.op = "get_run" /\ Len(ret.value.rows) = 2

\* a day inside [start, end]
InRange(d, start, end) == ~DateLess(d, start) /\ ~DateLess(end, d)

\* what a fetch_history_range call that has just returned did: it requested
\* only Thursdays of its range, none of them a week the cache held when it
\* started, and the weeks the cache has gained are those whose heating total
\* it obtained
CallKeepsToItsRange ==
    LET asked == { cpc'.requested[i] : i \in 1..Len(cpc'.requested) }
    IN /\ \A d \in asked : weekday(d) = 3 /\ InRange(d, cpc'.start, cpc'.end)
       /\ asked \cap StoredWeeks(noaa_cpc_degree_days) = {}
       /\ Cardinality(asked) = Len(cpc'.requested)
       /\ StoredWeeks(noaa_cpc_degree_days') \ StoredWeeks(noaa_cpc_degree_days)
              = asked \ cpc'.unavailable
       /\ Len(ret'.value.rows) = Cardinality(asked \ cpc'.unavailable)

\* C37, as stated: fetch_history_range requests only Thursdays inside
\* [start_date, end_date], never a week whose week_end_date was in the cache
\* when the call started, and stores a week only when its HDD value was
\* obtained; a week whose HDD is unavailable stays absent from the cache and
\* is requested again by the next call.
C37_UnavailableWeekRequestedByNextCall ==
    [][cpc' # cpc =>
           /\ CallKeepsToItsRange
           /\ \A d \in cpc'.before :
                  d \in { cpc'.requested[i] : i \in 1..Len(cpc'.requested) }]_vars

\* C37, amended: the same, and a week whose HDD is unavailable is requested
\* again by the next call whose range contains it, if it is still absent from
\* the cache when that call starts.
C37_UnavailableWeekRequestedWhenInRange ==
    [][cpc' # cpc =>
           /\ CallKeepsToItsRange
           /\ \A d \in cpc'.before :
                  InRange(d, cpc'.start, cpc'.end)
                      /\ d \notin StoredWeeks(noaa_cpc_degree_days)
                  => d \in { cpc'.requested[i] : i \in 1..Len(cpc'.requested) }]_vars

\* C37 witness: the call before left 2024-02-22 unavailable; this call, from
\* the Tuesday before it to 2024-03-07, passed over a cached week, requested
\* 2024-02-22 again without getting it, and stored another week it got.
C37_Witness ==
    /\ cpc.op = "fetch_history_range"
    /\ cpc.start = <<2024, 2, 20>> /\ cpc.end = <<2024, 3, 7>>
    /\ <<2024, 2, 22>> \in cpc.before \cap cpc.unavailable
    /\ Len(cpc.requested) = 2
    /\ StoredWeeks(noaa_cpc_degree_days) = { <<2024, 2, 29>>, <<2024, 3, 7>> }
    /\ ret.op = "fetch_history_range" /\ Len(ret.value.rows) = 1

\* the rows of the pages received so far, one page after the other
RECURSIVE PagesJoined(_)
PagesJoined(pages) ==
    IF pages = <<>> THEN <<>> ELSE Head(pages) \o PagesJoined(Tail(pages))

\* the offsets follow from the pages: 0, then each offset plus the rows
\* received at it; no offset twice; the rows collected are the pages in
\* order; the loop goes on only after a page with rows that left the offset
\* below the total, and has ended otherwise
PagesInOrder ==
    paging.pc # "idle" =>
        /\ \A k \in 1..Len(paging.requests) :
               paging.requests[k] =
                   IF k = 1 THEN 0
                   ELSE paging.requests[k - 1] + Len(paging.pages[k - 1])
        /\ \A j, k \in 1..Len(paging.requests) :
               j # k => paging.requests[j] # paging.requests[k]
        /\ paging.all_rows = PagesJoined(paging.pages)
        /\ paging.offset = Len(paging.all_rows)
        /\ \A k \in 1..Len(paging.all_rows) : paging.all_rows[k].period = k
        /\ paging.pc = "loop" /\ paging.pages # <<>> =>
               /\ paging.pages[Len(paging.pages)] # <<>>
               /\ paging.offset < paging.totals[Len(paging.totals)]
        /\ paging.pc = "done" =>
               \/ paging.pages[Len(paging.pages)] = <<>>
               \/ paging.offset >= paging.totals[Len(paging.totals)]

\* C38: the pagination loop of fetch_storage ends when the total the server
\* reports stops growing: every turn ends the loop (an empty page, or offset
\* >= total) or advances the offset by the rows just received, and the rows
\* collected are the pages at offsets 0, len(page1), len(page1)+len(page2),
\* ..., no offset requested twice.
C38_PaginationTerminates ==
    /\ []PagesInOrder
    /\ (paging.pc = "loop") ~> (paging.pc \in {"done", "raised"})

\* C38 witness: three pages were read at offsets 0, 2 and 3 while the
\* reported total grew from 3 to 4, and the loop ended at offset 4.
C38_Witness ==
    /\ paging.pc = "done"
    /\ paging.requests = <<0, 2, 3>>
    /\ paging.totals = <<3, 4, 4>>
    /\ Len(paging.all_rows) = 4
    /\ ret.op = "fetch_storage"

====
